---- MODULE Spec2Model ----
(***************************************************************************)
(* GeoTest quiz (app/src/App.tsx, first App component): the progression    *)
(* engine (score, streak, hearts, level, mastery), the question selector   *)
(* (type rotation and per-type queues), the data loading effects and the   *)
(* advance timer, as a state machine with one action per event handler.    *)
(*                                                                         *)
(* Spec         a returning player's session on a five-entry dataset       *)
(* FairSpec     Spec with the fairness of effects, fetches and timers      *)
(* SelectorSpec a returning player's session on a dataset larger than the  *)
(*              first difficulty window, each question answered once       *)
(* MountSpec    start-up from a stored blob, play and page reloads         *)
(* PureSpec     LevelTypes, getPoolForLevel and buildNextQuestion applied  *)
(*              to inputs drawn from bounded sets                          *)
(* BuilderSpec  the option, neighbour and pair builders applied to the     *)
(*              files of a six-country gazetteer                           *)
(* TapSpec      the map-tap test, the level windows and the geography      *)
(*              index applied to polygons, taps, zooms, pools and files    *)
(* QuartetSpec  a returning player's session on four countries with flags  *)
(*              and capitals, each question answered once                  *)
(***************************************************************************)
EXTENDS Integers, Sequences, FiniteSets, TLC

\* ------------------------------------------------------------------ bounds
\* Questions are built only while typeIndexRef stays <= MaxTypeIndex.
MaxTypeIndex == 3
\* Correct answers are accepted only while the score stays <= MaxScore.
MaxScore == 13100

\* Correct answers are accepted only while a mastery counter stays <= MaxMastery.
MaxMastery == 6
\* Wrong answers are accepted only while hearts stays >= -MaxDebt.
MaxDebt == 1
\* The number of countries of the larger dataset.
AtlasSize == 21
\* The levels the pure functions are applied to are 1..MaxLevel.
MaxLevel == 10
\* the largest countries_merged.json the builders are applied to
MaxPool == 5
\* the map is shown at 1..MaxScale pixels to the degree
MaxScale == 4
\* the longest pool the level windows are cut from
MaxLongPool == 201
\* the longest features array the geography index is built from
MaxFeatures == 2

\* --------------------------------------------------------- program constants
MaxHearts == 3
InitialHints == 3
InitialSkips == 3
LevelSize == 5
StreakMilestone == 5
MaxOptions == 4
ElitePoints == 10000
VeteranLevel == 5
StreakAward == 10
SmallTarget == 12
TapRadius == 28
TapMargin == 6

NoCode == "none"

\* ------------------------------------------------------------------ dataset
\* A countries_merged.json already in "fame" order: A has a capital but no
\* flag asset and no border geometry, B has a flag and geometry but no
\* capital.  X, Y and Z carry no cca3 (CountryMeta.cca3 is string | null):
\* they supply option labels but never enter a queue.  geom says whether the
\* admin-0 GeoJSON holds a polygon for the country.
Catalog ==
  << [name |-> "A", cca3 |-> "A",    flag |-> FALSE, capital |-> "a", geom |-> FALSE],
     [name |-> "B", cca3 |-> "B",    flag |-> TRUE,  capital |-> "",  geom |-> TRUE],
     [name |-> "X", cca3 |-> NoCode, flag |-> TRUE,  capital |-> "x", geom |-> FALSE],
     [name |-> "Y", cca3 |-> NoCode, flag |-> TRUE,  capital |-> "",  geom |-> FALSE],
     [name |-> "Z", cca3 |-> NoCode, flag |-> TRUE,  capital |-> "",  geom |-> FALSE] >>

\* A countries_merged.json of n countries "1" .. "n" in fame order, each with
\* a flag and no capital; the GeoJSON holds a polygon for the first only.
Atlas(n) ==
  [i \in 1..n |-> [name |-> ToString(i), cca3 |-> ToString(i), flag |-> TRUE,
                   capital |-> "", geom |-> i = 1]]

QuestionType ==
  {"map_tap", "flag_match", "capital_mcq", "neighbor_mcq", "currency_mcq",
   "city_mcq", "river_mcq", "language_mcq", "population_pair", "area_pair",
   "landlocked_mcq", "peak_mcq", "range_mcq", "region_mcq"}

VARIABLES
  countriesData,    \* the bundled country dataset
  featureIndex,     \* the codes the geography index has a record for
  geoFetch,         \* the admin-0 fetch: "pending", "loaded" or "failed"
  riverFetch,       \* the rivers fetch: "pending", "loaded" or "failed"
  isDataLoaded,     \* the loader screen has been replaced by the quiz
  currentQuestion,  \* the question on screen (NullQuestion before the first one)
  score, highScore, currentStreak, hearts, gameOver,
  level, correctInLevel, mastery, achievements,
  hintsLeft, skipsLeft, removedIndices,
  queueRef,         \* per type, the codes of the shuffled queue not yet shifted
  typeIndexRef,
  nextTimeoutRef,   \* the pending advance timer and the level its handleNext closed over
  lastEvent,        \* the handler that ran last and what it decided
  queueLevel,       \* per type, the level whose window filled the queue (0: empty)
  stored,           \* the 'geotest-progress' item of localStorage (NoBlob: none)
  mount,            \* how far the start-up of the component has got
  probe             \* the last pure function applied, its inputs and its result

dataVars == <<countriesData, featureIndex, geoFetch, riverFetch, isDataLoaded>>

vars == <<countriesData, featureIndex, geoFetch, riverFetch, isDataLoaded,
          currentQuestion, score, highScore, currentStreak, hearts, gameOver,
          level, correctInLevel, mastery, achievements, hintsLeft, skipsLeft,
          removedIndices, queueRef, typeIndexRef, nextTimeoutRef, lastEvent,
          queueLevel, stored, mount, probe>>

\* ------------------------------------------------------------------ helpers
Min(a, b) == IF a < b THEN a ELSE b
Max(a, b) == IF a > b THEN a ELSE b

RECURSIVE KeepFrom(_, _, _)
\* the entries of s from position i on whose position is in keep, in order
KeepFrom(s, keep, i) ==
  IF i > Len(s) THEN <<>>
  ELSE (IF i \in keep THEN <<s[i]>> ELSE <<>>) \o KeepFrom(s, keep, i + 1)

\* s.filter(..), for the set keep of positions that pass the test
Filter(s, keep) == KeepFrom(s, keep, 1)

\* every order a Fisher-Yates shuffle can produce
shuffle(items) ==
  {[i \in 1..Len(items) |-> items[f[i]]] : f \in Permutations(1..Len(items))}

\* the keys of countriesByCca3
CodesOf(data) == {data[i].cca3 : i \in 1..Len(data)} \ {NoCode}

Codes == CodesOf(countriesData)

\* the keys of the index built from the GeoJSON features
GeoJsonCodes(data) == {data[i].cca3 : i \in {j \in 1..Len(data) : data[j].geom}} \ {NoCode}

\* ------------------------------------------------------------------ pools
HasMap(c) == c.cca3 # NoCode /\ c.cca3 \in featureIndex
HasFlag(c) == c.flag
HasCapital(c) == c.capital # ""

\* every country with a code is in the map pool, on the map or not
mapPool_AllCoded ==
  Filter(countriesData, {i \in 1..Len(countriesData) : countriesData[i].cca3 # NoCode})

mapPool == Filter(countriesData, {i \in 1..Len(countriesData) : HasMap(countriesData[i])})
flagPool == Filter(countriesData, {i \in 1..Len(countriesData) : HasFlag(countriesData[i])})
capitalPool == Filter(countriesData, {i \in 1..Len(countriesData) : HasCapital(countriesData[i])})
\* the pool of every type for which no dataset entry has the data
emptyPool == Filter(countriesData, {})

PoolFor(type) ==
  CASE type = "map_tap" -> mapPool
    [] type = "flag_match" -> flagPool
    [] type = "capital_mcq" -> capitalPool
    [] OTHER -> emptyPool

\* level 6 is cut at 90 entries
getPoolForLevel_Dip(pool, lvl) ==
  LET n == CASE lvl = 1 -> 20 [] lvl = 2 -> 40 [] lvl = 3 -> 60 [] lvl = 4 -> 80
             [] lvl = 5 -> 100 [] lvl = 6 -> 90 [] lvl = 7 -> 160 [] lvl = 8 -> 200
             [] OTHER -> Len(pool)
  IN SubSeq(pool, 1, Min(n, Len(pool)))

\* every level gets the first 5 entries only
getPoolForLevel_Narrow(pool, lvl) == SubSeq(pool, 1, Min(5, Len(pool)))

getPoolForLevel(pool, lvl) ==
  LET n == CASE lvl = 1 -> 20 [] lvl = 2 -> 40 [] lvl = 3 -> 60 [] lvl = 4 -> 80
             [] lvl = 5 -> 100 [] lvl = 6 -> 130 [] lvl = 7 -> 160 [] lvl = 8 -> 200
             [] OTHER -> Len(pool)
  IN SubSeq(pool, 1, Min(n, Len(pool)))

\* from level 3 on the new types replace the basic ones
LevelTypes_Replace(lvl) ==
  IF lvl >= 3 THEN <<"map_tap", "neighbor_mcq", "population_pair", "area_pair">>
  ELSE <<"flag_match", "capital_mcq">>

LevelTypes(lvl) ==
  <<"flag_match", "capital_mcq">>
  \o (IF lvl >= 3 THEN <<"map_tap", "neighbor_mcq", "population_pair", "area_pair">> ELSE <<>>)
  \o (IF lvl >= 5 THEN <<"city_mcq", "currency_mcq", "landlocked_mcq", "region_mcq">> ELSE <<>>)
  \o (IF lvl >= 7 THEN <<"river_mcq", "language_mcq">> ELSE <<>>)
  \o (IF lvl >= 9 THEN <<"peak_mcq", "range_mcq">> ELSE <<>>)

getPointsForQuestion(type) ==
  CASE type = "map_tap" -> 1000
    [] type = "river_mcq" -> 800
    [] type \in {"neighbor_mcq", "peak_mcq", "range_mcq"} -> 600
    [] type \in {"capital_mcq", "currency_mcq", "language_mcq", "city_mcq"} -> 500
    [] OTHER -> 400

\* Math.round(n / d) for n, d > 0: the nearest integer, halves upwards
MathRound(n, d) == (2 * n + d) \div (2 * d)

\* the points without the level multiplier
Points_NoLevel(type, streak, lvl) ==
  MathRound(getPointsForQuestion(type) * (10 + streak), 10)

\* Math.round(basePoints * (1 + currentStreak * 0.1) * (1 + (level - 1) * 0.2))
Points(type, streak, lvl) ==
  MathRound(getPointsForQuestion(type) * (10 + streak) * (5 + (lvl - 1)), 50)

\* --------------------------------------------------------------- questions
NullQuestion ==
  [id |-> <<>>, type |-> "none", nOptions |-> 0, correctIndex |-> -1,
   correctCca3 |-> NoCode, targetFeature |-> FALSE]

\* the placeholder buildNextQuestion returns when every builder yields nothing
NoDataQuestion ==
  [id |-> <<"no-data">>, type |-> "flag_match", nOptions |-> 1, correctIndex |-> 0,
   correctCca3 |-> NoCode, targetFeature |-> FALSE]

NullCountry == [name |-> "", cca3 |-> NoCode, flag |-> FALSE, capital |-> "", geom |-> FALSE]

HasCode(c) == c.cca3 # NoCode

\* the shifted code is looked up in the whole pool
ShiftNext_FindInPool(pool, currentPool, type, queue) ==
  LET coded == Filter(currentPool, {i \in 1..Len(currentPool) : HasCode(currentPool[i])})
      refilled == IF queue[type] = {} THEN {coded[i].cca3 : i \in 1..Len(coded)}
                  ELSE queue[type]
      Find(code) ==
        IF \E i \in 1..Len(pool) : pool[i].cca3 = code
        THEN pool[CHOOSE i \in 1..Len(pool) :
                    /\ pool[i].cca3 = code
                    /\ \A j \in 1..(i - 1) : pool[j].cca3 # code]
        ELSE currentPool[1]
  IN IF Len(pool) = 0
     THEN {[country |-> NullCountry, queue |-> queue]}
     ELSE IF refilled = {}
          THEN {[country |-> currentPool[1], queue |-> queue]}
          ELSE {[country |-> Find(nextCca3),
                 queue |-> [queue EXCEPT ![type] = refilled \ {nextCca3}]] :
                nextCca3 \in refilled}

\* the selected code stays in the queue
ShiftNext_KeepHead(pool, currentPool, type, queue) ==
  LET coded == Filter(currentPool, {i \in 1..Len(currentPool) : HasCode(currentPool[i])})
      refilled == IF queue[type] = {} THEN {coded[i].cca3 : i \in 1..Len(coded)}
                  ELSE queue[type]
      Find(code) ==
        IF \E i \in 1..Len(currentPool) : currentPool[i].cca3 = code
        THEN currentPool[CHOOSE i \in 1..Len(currentPool) :
                           /\ currentPool[i].cca3 = code
                           /\ \A j \in 1..(i - 1) : currentPool[j].cca3 # code]
        ELSE currentPool[1]
  IN IF Len(pool) = 0
     THEN {[country |-> NullCountry, queue |-> queue]}
     ELSE IF refilled = {}
          THEN {[country |-> currentPool[1], queue |-> queue]}
          ELSE {[country |-> Find(nextCca3),
                 queue |-> [queue EXCEPT ![type] = refilled]] :
                nextCca3 \in refilled}

\* The body of getNextCountryForType for the pool of the type and its
\* difficulty window: the outcomes are the subject (NullCountry for null) and
\* the queues left behind.  The order shuffle() gives a queue is seen only
\* through shift(), one code at a time, and every order is possible: a queue
\* is kept as the set of its codes not yet shifted, and shift() takes any of
\* them.
ShiftNext(pool, currentPool, type, queue) ==
  LET coded == Filter(currentPool, {i \in 1..Len(currentPool) : HasCode(currentPool[i])})
      refilled == IF queue[type] = {} THEN {coded[i].cca3 : i \in 1..Len(coded)}
                  ELSE queue[type]
      Find(code) ==
        IF \E i \in 1..Len(currentPool) : currentPool[i].cca3 = code
        THEN currentPool[CHOOSE i \in 1..Len(currentPool) :
                           /\ currentPool[i].cca3 = code
                           /\ \A j \in 1..(i - 1) : currentPool[j].cca3 # code]
        ELSE currentPool[1]
  IN IF Len(pool) = 0
     THEN {[country |-> NullCountry, queue |-> queue]}
     ELSE IF refilled = {}
          THEN {[country |-> currentPool[1], queue |-> queue]}
          ELSE {[country |-> Find(nextCca3),
                 queue |-> [queue EXCEPT ![type] = refilled \ {nextCca3}]] :
                nextCca3 \in refilled}

\* an empty queue is refilled with the codes of the whole pool
getNextCountryForType_WholePool(type, lvl, queue) ==
  UNION {ShiftNext(pool, pool, type, queue) : pool \in {PoolFor(type)}}

\* const pool = ..; const currentPool = getPoolForLevel(pool, args.level)
getNextCountryForType(type, lvl, queue) ==
  UNION {UNION {ShiftNext(pool, currentPool, type, queue) :
                  currentPool \in {getPoolForLevel(pool, lvl)}} :
           pool \in {PoolFor(type)}}

\* the distinct non-empty labels the option builders can draw from
NamesOf(pool) == {pool[i].name : i \in 1..Len(pool)} \ {""}
CapitalsOf(pool) == {pool[i].capital : i \in 1..Len(pool)} \ {""}

\* options.size after the loop: the correct value plus up to three others
OptionCount(labels, correctValue) ==
  Min(MaxOptions, 1 + Cardinality(labels \ {correctValue}))

\* The question builders for one subject r.country: the outcomes are a
\* question (NullQuestion for null) and the queues.  names and capitals are
\* the labels the flag and capital builders draw their options from.
QuestionsFor(type, r, names, capitals) ==
  LET country == r.country
      Built(q) == {[question |-> q, queue |-> r.queue]}
  IN IF country.cca3 = NoCode THEN Built(NullQuestion)
     ELSE CASE type = "map_tap" ->
                 Built([id |-> <<type, country.cca3>>, type |-> type, nOptions |-> 0,
                        correctIndex |-> -1, correctCca3 |-> country.cca3,
                        targetFeature |-> country.cca3 \in featureIndex])
            [] type = "flag_match" ->
                 LET n == OptionCount(names, country.name)
                 IN {[question |-> [id |-> <<type, country.cca3>>, type |-> type,
                                    nOptions |-> n, correctIndex |-> ci,
                                    correctCca3 |-> country.cca3, targetFeature |-> FALSE],
                      queue |-> r.queue] : ci \in 0..(n - 1)}
            [] type = "capital_mcq" ->
                 IF country.capital = "" THEN Built(NullQuestion)
                 ELSE LET n == OptionCount(capitals, country.capital)
                      IN {[question |-> [id |-> <<type, country.cca3>>, type |-> type,
                                         nOptions |-> n, correctIndex |-> ci,
                                         correctCca3 |-> country.cca3, targetFeature |-> FALSE],
                           queue |-> r.queue] : ci \in 0..(n - 1)}
            [] OTHER -> Built(NullQuestion)

\* Outcomes of buildQuestionForType: a question (NullQuestion for null) and the queues.
buildQuestionForType(type, lvl, queue) ==
  UNION {UNION {UNION {QuestionsFor(type, r, names, capitals) :
                         r \in getNextCountryForType(type, lvl, queue)} :
                  capitals \in {CapitalsOf(getPoolForLevel(capitalPool, lvl))}} :
           names \in {NamesOf(getPoolForLevel(flagPool, lvl))}}

RECURSIVE Attempts(_, _, _, _)
\* the for loop of buildNextQuestion from attempt number `attempt` on
Attempts(attempt, lvl, tix, queue) ==
  LET types == LevelTypes(lvl)
  IN IF attempt >= Len(types)
     THEN {[question |-> NoDataQuestion, typeIndex |-> tix, queue |-> queue]}
     ELSE LET type == types[(tix % Len(types)) + 1]
          IN UNION {
               IF b.question # NullQuestion
               THEN {[question |-> b.question, typeIndex |-> tix + 1,
                      queue |-> b.queue]}
               ELSE Attempts(attempt + 1, lvl, tix + 1, b.queue)
               : b \in buildQuestionForType(type, lvl, queue)}

\* the first builder decides alone: the placeholder follows its failure
buildNextQuestion_OneAttempt(lvl, tix, queue) ==
  LET types == LevelTypes(lvl)
  IN {IF b.question # NullQuestion
      THEN [question |-> b.question, typeIndex |-> tix + 1, queue |-> b.queue]
      ELSE [question |-> NoDataQuestion, typeIndex |-> tix + 1, queue |-> b.queue]
      : b \in buildQuestionForType(types[(tix % Len(types)) + 1], lvl, queue)}

\* the rotation starts one position after the cursor
buildNextQuestion_FromNext(lvl, tix, queue) == Attempts(0, lvl, tix + 1, queue)

buildNextQuestion(lvl, tix, queue) == Attempts(0, lvl, tix, queue)

EmptyQueues == [t \in QuestionType |-> {}]

\* ------------------------------------------------------------------- state
NoTimer == [pending |-> FALSE, lvl |-> 0]

NoProbe == [fn |-> "none", level |-> 0, pool |-> <<>>, out |-> <<>>]

Event(kind, correct) == [kind |-> kind, correct |-> correct]

\* The 'geotest-progress' blobs a returning player of the Catalog dataset can
\* start from, as the save effect stored them during an earlier visit
\* (flag_match and capital_mcq in turn, each question answered once):
\*   - after ten correct answers;
\*   - after five correct answers, two wrong ones and four more correct ones.
SavedProgress ==
  { [highScore |-> 7332, score |-> 7332, level |-> 3, hearts |-> 3,
     correctInLevel |-> 0, streak |-> 10, mastery |-> [c \in CodesOf(Catalog) |-> 5],
     achievements |-> {"streak10"}],
    [highScore |-> 5112, score |-> 5112, level |-> 2, hearts |-> 1,
     correctInLevel |-> 4, streak |-> 4,
     mastery |-> [c \in CodesOf(Catalog) |-> IF c = "A" THEN 4 ELSE 5],
     achievements |-> {}] }

\* The blob a returning player of the Atlas dataset can start from: ten correct
\* flag answers in a row on countries 1..10 (6480 points, level 3), three wrong
\* answers and a restart, then two wrong answers and four correct ones on
\* countries 11..14.
AtlasProgress ==
  [highScore |-> 6480, score |-> 1840, level |-> 1, hearts |-> 1,
   correctInLevel |-> 4, streak |-> 4,
   mastery |-> [c \in CodesOf(Atlas(AtlasSize)) |->
                  IF c \in {ToString(i) : i \in 1..14} THEN 1 ELSE 0],
   achievements |-> {"streak10"}]

\* the useState and useRef defaults that no stored blob overwrites
Mount ==
  /\ currentQuestion = NullQuestion
  /\ gameOver = FALSE
  /\ hintsLeft = InitialHints
  /\ skipsLeft = InitialSkips
  /\ removedIndices = {}
  /\ queueRef = EmptyQueues
  /\ typeIndexRef = 0
  /\ nextTimeoutRef = NoTimer
  /\ lastEvent = Event("init", FALSE)
  /\ queueLevel = [t \in QuestionType |-> 0]
  /\ probe = NoProbe

\* the load effect: the fields of the stored blob overwrite the defaults
Restore(data) ==
  /\ score = data.score
  /\ highScore = data.highScore
  /\ currentStreak = data.streak
  /\ hearts = data.hearts
  /\ level = data.level
  /\ correctInLevel = data.correctInLevel
  /\ mastery = data.mastery
  /\ achievements = data.achievements

\* localStorage.getItem('geotest-progress') === null
NoBlob == [empty |-> TRUE]

\* start-up is over: both mount effects have run and the values they set are
\* rendered
Mounted == [phase |-> "done", data |-> NoBlob]

\* the object the save effect serialises
CurrentBlob ==
  [highScore |-> highScore, score |-> score, level |-> level, hearts |-> hearts,
   correctInLevel |-> correctInLevel, streak |-> currentStreak, mastery |-> mastery,
   achievements |-> achievements]

\* the save effect, run after the render that follows a change of its
\* dependencies
SaveEffect ==
  /\ stored' = CurrentBlob'
  /\ UNCHANGED mount

\* start-up is over and the save effect has written the restored values back
Settled ==
  /\ mount = Mounted
  /\ stored = CurrentBlob

\* the state the mount effects leave, both fetches still under way
Init ==
  /\ countriesData = Catalog
  /\ featureIndex = {}
  /\ geoFetch = "pending"
  /\ riverFetch = "pending"
  /\ isDataLoaded = FALSE
  /\ Mount
  /\ \E data \in SavedProgress : Restore(data)
  /\ Settled

\* setFeatureIndex(index) when the admin-0 fetch succeeds, console.error when
\* it fails
loadGeoJson(ok) ==
  /\ geoFetch = "pending"
  /\ geoFetch' = IF ok THEN "loaded" ELSE "failed"
  /\ featureIndex' = IF ok THEN GeoJsonCodes(countriesData) ELSE featureIndex
  /\ lastEvent' = Event("geo", ok)
  /\ UNCHANGED <<countriesData, riverFetch, isDataLoaded, currentQuestion, score,
                 highScore, currentStreak, hearts, gameOver, level, correctInLevel,
                 mastery, achievements, hintsLeft, skipsLeft, removedIndices,
                 queueRef, typeIndexRef, nextTimeoutRef, queueLevel, probe>>
  /\ UNCHANGED <<stored, mount>>

\* setRiverIndex(index) and the 500 ms timer when the rivers fetch succeeds,
\* console.error when it fails
loadRivers(ok) ==
  /\ riverFetch = "pending"
  /\ riverFetch' = IF ok THEN "loaded" ELSE "failed"
  /\ lastEvent' = Event("rivers", ok)
  /\ UNCHANGED <<countriesData, featureIndex, geoFetch, isDataLoaded, currentQuestion,
                 score, highScore, currentStreak, hearts, gameOver, level,
                 correctInLevel, mastery, achievements, hintsLeft, skipsLeft,
                 removedIndices, queueRef, typeIndexRef, nextTimeoutRef, queueLevel,
                 probe>>
  /\ UNCHANGED <<stored, mount>>

\* setTimeout(() => setIsDataLoaded(true), 500)
DataLoadedTimer ==
  /\ riverFetch = "loaded"
  /\ ~isDataLoaded
  /\ isDataLoaded' = TRUE
  /\ lastEvent' = Event("loaded", FALSE)
  /\ UNCHANGED <<countriesData, featureIndex, geoFetch, riverFetch, currentQuestion,
                 score, highScore, currentStreak, hearts, gameOver, level,
                 correctInLevel, mastery, achievements, hintsLeft, skipsLeft,
                 removedIndices, queueRef, typeIndexRef, nextTimeoutRef, queueLevel,
                 probe>>
  /\ UNCHANGED <<stored, mount>>

\* setCurrentQuestion(buildNextQuestion(..)) followed by the effect keyed on
\* currentQuestion?.id, which clears the selection and the hidden options.
\* queue is the value of queueRef.current the call starts from.
ShowNext(lvl, queue) ==
  \E r \in buildNextQuestion(lvl, typeIndexRef, queue) :
    /\ r.typeIndex <= MaxTypeIndex
    /\ currentQuestion' = r.question
    /\ typeIndexRef' = r.typeIndex
    /\ queueRef' = r.queue
    /\ IF r.question.id # currentQuestion.id
       THEN removedIndices' = {}
       ELSE UNCHANGED removedIndices
    /\ queueLevel' = [t \in QuestionType |->
                        IF r.queue[t] = {} THEN 0
                        ELSE IF queue[t] = {} THEN lvl ELSE queueLevel[t]]

handleNext(lvl) == ShowNext(lvl, queueRef)

\* the effect that asks for the first question once the dataset and the
\* geography index are there
FirstQuestion ==
  /\ currentQuestion = NullQuestion
  /\ Len(countriesData) > 0
  /\ featureIndex # {}
  /\ handleNext(level)
  /\ lastEvent' = Event("first", FALSE)
  /\ UNCHANGED <<dataVars, score, highScore, currentStreak, hearts, gameOver, level,
                 correctInLevel, mastery, achievements, hintsLeft, skipsLeft,
                 nextTimeoutRef, probe>>
  /\ UNCHANGED <<stored, mount>>

\* a level-up that falls on a streak milestone restores one heart only
HeartsAfterCorrect_Once(h, levelUp, milestone) ==
  IF levelUp \/ milestone THEN Min(h + 1, MaxHearts) ELSE h

\* the streak milestone restores nothing
HeartsAfterCorrect_NoMilestone(h, levelUp, milestone) ==
  IF levelUp THEN Min(h + 1, MaxHearts) ELSE h

\* both heart updaters of one correct answer, applied in the order queued
HeartsAfterCorrect(h, levelUp, milestone) ==
  LET h1 == IF levelUp THEN Min(h + 1, MaxHearts) ELSE h
  IN IF milestone THEN Min(h1 + 1, MaxHearts) ELSE h1

\* the best score is overwritten by every new score
HighScoreAfter_Always(nextScore, best) == nextScore

\* if (next > highScore) setHighScore(next)
HighScoreAfter(nextScore, best) == IF nextScore > best THEN nextScore ELSE best

\* the counter is never put back to 0
InLevelAfter_NoReset(prev) == prev + 1

\* the value the setCorrectInLevel updater returns
InLevelAfter(prev) == IF prev + 1 >= LevelSize THEN 0 ELSE prev + 1

\* the level after the setCorrectInLevel updater has run
LevelAfter(lvl, prev) == IF prev + 1 >= LevelSize THEN lvl + 1 ELSE lvl

\* the triggerAchievement calls of a correct option answer
AchievementsAfter(prev, nextScore, nextLevel, levelUp, nextStreak) ==
  prev \cup (IF nextScore >= ElitePoints THEN {"elite"} ELSE {})
       \cup (IF levelUp /\ nextLevel = VeteranLevel THEN {"lvl5"} ELSE {})
       \cup (IF nextStreak = StreakAward THEN {"streak10"} ELSE {})

\* the state updates shared by the correct branches of both answer handlers
ApplyCorrect(type) ==
  LET points == Points(type, currentStreak, level)
      nextScore == score + points
      levelUp == correctInLevel + 1 >= LevelSize
      nextStreak == currentStreak + 1
      milestone == nextStreak % StreakMilestone = 0
  IN /\ nextScore <= MaxScore
     /\ score' = nextScore
     /\ highScore' = HighScoreAfter(nextScore, highScore)
     /\ correctInLevel' = InLevelAfter(correctInLevel)
     /\ level' = LevelAfter(level, correctInLevel)
     /\ currentStreak' = nextStreak
     /\ hearts' = HeartsAfterCorrect(hearts, levelUp, milestone)
     /\ UNCHANGED gameOver

\* game over only once hearts is below 0
GameOverAfter_Strict(nextHearts, over) == IF nextHearts < 0 THEN TRUE ELSE over

\* if (next <= 0) setGameOver(true)
GameOverAfter(nextHearts, over) == IF nextHearts <= 0 THEN TRUE ELSE over

\* setHearts((h) => { const next = h - 1; ...; return next })
LoseHeart ==
  /\ hearts - 1 >= -MaxDebt
  /\ hearts' = hearts - 1
  /\ gameOver' = GameOverAfter(hearts - 1, gameOver)

\* the option buttons exist only while the quiz panel is rendered
\* (isDataLoaded and !gameOver), and an option hidden by the hint cannot be
\* clicked
handleOptionSelect(index) ==
  /\ isDataLoaded
  /\ ~gameOver
  /\ currentQuestion # NullQuestion
  /\ currentQuestion.correctIndex # -1
  /\ index \in 0..(currentQuestion.nOptions - 1)
  /\ index \notin removedIndices
  /\ LET isCorrect == index = currentQuestion.correctIndex
         correctCca3 == currentQuestion.correctCca3
     IN /\ IF isCorrect
           THEN /\ IF correctCca3 # NoCode
                   THEN /\ mastery[correctCca3] + 1 <= MaxMastery
                        /\ mastery' = [mastery EXCEPT ![correctCca3] = @ + 1]
                   ELSE UNCHANGED mastery
                /\ ApplyCorrect(currentQuestion.type)
                /\ achievements' =
                     AchievementsAfter(achievements,
                                       score + Points(currentQuestion.type, currentStreak, level),
                                       level + 1, correctInLevel + 1 >= LevelSize,
                                       currentStreak + 1)
           ELSE /\ correctInLevel' = 0
                /\ currentStreak' = 0
                /\ LoseHeart
                /\ UNCHANGED <<score, highScore, level, mastery, achievements>>
        /\ lastEvent' = Event("option", isCorrect)
  /\ nextTimeoutRef' = [pending |-> TRUE, lvl |-> level]
  /\ UNCHANGED <<dataVars, currentQuestion, hintsLeft, skipsLeft, removedIndices,
                 queueRef, typeIndexRef, queueLevel, probe>>
  /\ SaveEffect

\* the map click listener; isCorrect is the outcome of the hit test
handleMapTap(isCorrect) ==
  /\ currentQuestion # NullQuestion
  /\ currentQuestion.type = "map_tap"
  /\ currentQuestion.targetFeature
  /\ IF isCorrect
     THEN ApplyCorrect(currentQuestion.type)
     ELSE /\ LoseHeart
          /\ correctInLevel' = 0
          /\ UNCHANGED <<score, highScore, level, currentStreak>>
  /\ nextTimeoutRef' = [pending |-> TRUE, lvl |-> level]
  /\ lastEvent' = Event("map", isCorrect)
  /\ UNCHANGED <<dataVars, currentQuestion, mastery, achievements, hintsLeft,
                 skipsLeft, removedIndices, queueRef, typeIndexRef, queueLevel,
                 probe>>
  /\ SaveEffect

\* the advance timer set by an answer fires
NextTimeoutFires ==
  /\ nextTimeoutRef.pending
  /\ handleNext(nextTimeoutRef.lvl)
  /\ nextTimeoutRef' = NoTimer
  /\ lastEvent' = Event("timer", FALSE)
  /\ UNCHANGED <<dataVars, score, highScore, currentStreak, hearts, gameOver, level,
                 correctInLevel, mastery, achievements, hintsLeft, skipsLeft, probe>>
  /\ UNCHANGED <<stored, mount>>

\* any two options are hidden, the correct one among them or not
handleHint_AnyTwo ==
  /\ isDataLoaded
  /\ ~gameOver
  /\ currentQuestion # NullQuestion
  /\ currentQuestion.nOptions >= 4
  /\ hintsLeft > 0
  /\ removedIndices = {}
  /\ \E toRemove \in SUBSET (0..(currentQuestion.nOptions - 1)) :
       /\ Cardinality(toRemove) = 2
       /\ removedIndices' = toRemove
  /\ hintsLeft' = hintsLeft - 1
  /\ lastEvent' = Event("hint", FALSE)
  /\ UNCHANGED <<dataVars, currentQuestion, score, highScore, currentStreak, hearts,
                 gameOver, level, correctInLevel, mastery, achievements, skipsLeft,
                 queueRef, typeIndexRef, nextTimeoutRef, queueLevel, probe>>
  /\ UNCHANGED <<stored, mount>>

handleHint ==
  /\ isDataLoaded
  /\ ~gameOver
  /\ currentQuestion # NullQuestion
  /\ currentQuestion.nOptions >= 4
  /\ hintsLeft > 0
  /\ removedIndices = {}
  /\ \E toRemove \in SUBSET ((0..(currentQuestion.nOptions - 1)) \ {currentQuestion.correctIndex}) :
       /\ Cardinality(toRemove) = 2
       /\ removedIndices' = toRemove
  /\ hintsLeft' = hintsLeft - 1
  /\ lastEvent' = Event("hint", FALSE)
  /\ UNCHANGED <<dataVars, currentQuestion, score, highScore, currentStreak, hearts,
                 gameOver, level, correctInLevel, mastery, achievements, skipsLeft,
                 queueRef, typeIndexRef, nextTimeoutRef, queueLevel, probe>>
  /\ UNCHANGED <<stored, mount>>

\* a skip ends the streak
handleSkip_EndsStreak ==
  /\ isDataLoaded
  /\ ~gameOver
  /\ skipsLeft > 0
  /\ skipsLeft' = skipsLeft - 1
  /\ currentStreak' = 0
  /\ handleNext(level)
  /\ lastEvent' = Event("skip", FALSE)
  /\ UNCHANGED <<dataVars, score, highScore, hearts, gameOver, level,
                 correctInLevel, mastery, achievements, hintsLeft, nextTimeoutRef,
                 probe>>
  /\ UNCHANGED <<stored, mount>>

handleSkip ==
  /\ isDataLoaded
  /\ ~gameOver
  /\ skipsLeft > 0
  /\ skipsLeft' = skipsLeft - 1
  /\ handleNext(level)
  /\ lastEvent' = Event("skip", FALSE)
  /\ UNCHANGED <<dataVars, score, highScore, currentStreak, hearts, gameOver, level,
                 correctInLevel, mastery, achievements, hintsLeft, nextTimeoutRef,
                 probe>>
  /\ UNCHANGED <<stored, mount>>

\* the queues are left as they are
restartGame_KeepQueues ==
  /\ isDataLoaded
  /\ gameOver
  /\ hearts' = MaxHearts
  /\ gameOver' = FALSE
  /\ score' = 0
  /\ currentStreak' = 0
  /\ hintsLeft' = InitialHints
  /\ skipsLeft' = InitialSkips
  /\ level' = 1
  /\ correctInLevel' = 0
  /\ ShowNext(1, queueRef)
  /\ lastEvent' = Event("restart", FALSE)
  /\ UNCHANGED <<dataVars, highScore, mastery, achievements, nextTimeoutRef, probe>>
  /\ SaveEffect

\* the Try Again button of the game-over card
restartGame ==
  /\ isDataLoaded
  /\ gameOver
  /\ hearts' = MaxHearts
  /\ gameOver' = FALSE
  /\ score' = 0
  /\ currentStreak' = 0
  /\ hintsLeft' = InitialHints
  /\ skipsLeft' = InitialSkips
  /\ level' = 1
  /\ correctInLevel' = 0
  /\ ShowNext(1, EmptyQueues)
  /\ lastEvent' = Event("restart", FALSE)
  /\ UNCHANGED <<dataVars, highScore, mastery, achievements, nextTimeoutRef, probe>>
  /\ SaveEffect

Next ==
  \/ \E ok \in BOOLEAN : loadGeoJson(ok)
  \/ \E ok \in BOOLEAN : loadRivers(ok)
  \/ DataLoadedTimer
  \/ FirstQuestion
  \/ \E index \in 0..(MaxOptions - 1) : handleOptionSelect(index)
  \/ \E isCorrect \in BOOLEAN : handleMapTap(isCorrect)
  \/ NextTimeoutFires
  \/ handleHint
  \/ handleSkip
  \/ restartGame

Spec == Init /\ [][Next]_vars

\* Effects run after the render that enables them, a fetch settles and a
\* timer that stays armed fires; what the player does is under no obligation.
FairSpec ==
  /\ Spec
  /\ WF_vars(\E ok \in BOOLEAN : loadGeoJson(ok))
  /\ WF_vars(\E ok \in BOOLEAN : loadRivers(ok))
  /\ WF_vars(DataLoadedTimer)
  /\ WF_vars(FirstQuestion)
  /\ WF_vars(NextTimeoutFires)

\* ------------------------------------------------- the larger dataset
\* a returning player on the Atlas dataset, the loader screen already gone
SelectorInit ==
  /\ countriesData = Atlas(AtlasSize)
  /\ featureIndex = GeoJsonCodes(Atlas(AtlasSize))
  /\ geoFetch = "loaded"
  /\ riverFetch = "loaded"
  /\ isDataLoaded = TRUE
  /\ Mount
  /\ Restore(AtlasProgress)
  /\ Settled

\* a click on an option of a question not answered yet
FirstAnswer(index) ==
  /\ ~nextTimeoutRef.pending
  /\ handleOptionSelect(index)

SelectorNext ==
  \/ FirstQuestion
  \/ \E index \in 0..(MaxOptions - 1) : FirstAnswer(index)
  \/ NextTimeoutFires
  \/ handleSkip
  \/ restartGame

SelectorSpec == SelectorInit /\ [][SelectorNext]_vars

\* ------------------------------------------------- four countries
\* A countries_merged.json of four countries "1" .. "4", each with a code, a
\* flag and a capital of its own, so that flag and capital questions both
\* show four options; the GeoJSON holds a polygon for the first only.
Quartet ==
  [i \in 1..4 |-> [name |-> ToString(i), cca3 |-> ToString(i), flag |-> TRUE,
                   capital |-> ToString(i), geom |-> i = 1]]

\* The blob a returning player of the Quartet dataset can start from, stored
\* after five correct answers, two wrong ones and four more correct ones.
QuartetProgress ==
  [highScore |-> 5112, score |-> 5112, level |-> 2, hearts |-> 1,
   correctInLevel |-> 4, streak |-> 4,
   mastery |-> [c \in CodesOf(Quartet) |-> IF c = "1" THEN 3 ELSE 2],
   achievements |-> {}]

\* a returning player on the Quartet dataset, the loader screen already gone
QuartetInit ==
  /\ countriesData = Quartet
  /\ featureIndex = GeoJsonCodes(Quartet)
  /\ geoFetch = "loaded"
  /\ riverFetch = "loaded"
  /\ isDataLoaded = TRUE
  /\ Mount
  /\ Restore(QuartetProgress)
  /\ Settled

\* a tap on the map while no advance timer is pending
FirstTap(isCorrect) ==
  /\ ~nextTimeoutRef.pending
  /\ handleMapTap(isCorrect)

QuartetNext ==
  \/ FirstQuestion
  \/ \E index \in 0..(MaxOptions - 1) : FirstAnswer(index)
  \/ \E isCorrect \in BOOLEAN : FirstTap(isCorrect)
  \/ NextTimeoutFires
  \/ handleHint
  \/ handleSkip
  \/ restartGame

QuartetSpec == QuartetInit /\ [][QuartetNext]_vars

\* ------------------------------------------------- the pure functions
\* any dataset size, level and rotation cursor, nothing presented yet
PureInit ==
  /\ \E n \in 0..AtlasSize :
       /\ countriesData = Atlas(n)
       /\ featureIndex = GeoJsonCodes(Atlas(n))
       /\ mastery = [c \in CodesOf(Atlas(n)) |-> 0]
  /\ geoFetch = "loaded"
  /\ riverFetch = "loaded"
  /\ isDataLoaded = TRUE
  /\ Mount
  /\ level \in 1..MaxLevel
  /\ score = 0
  /\ highScore = 0
  /\ currentStreak = 0
  /\ hearts = MaxHearts
  /\ correctInLevel = 0
  /\ achievements = {}
  /\ Settled

Frame ==
  UNCHANGED <<dataVars, currentQuestion, score, highScore, currentStreak, hearts,
              gameOver, level, correctInLevel, mastery, achievements, hintsLeft,
              skipsLeft, removedIndices, queueRef, typeIndexRef, nextTimeoutRef,
              queueLevel, stored, mount>>

\* the rotation cursor a call can find
SetCursor(tix) ==
  /\ currentQuestion = NullQuestion
  /\ typeIndexRef = 0
  /\ tix \in 1..MaxTypeIndex
  /\ typeIndexRef' = tix
  /\ lastEvent' = Event("cursor", FALSE)
  /\ UNCHANGED <<dataVars, currentQuestion, score, highScore, currentStreak, hearts,
                 gameOver, level, correctInLevel, mastery, achievements, hintsLeft,
                 skipsLeft, removedIndices, queueRef, nextTimeoutRef, queueLevel,
                 probe>>
  /\ UNCHANGED <<stored, mount>>

ApplyLevelTypes ==
  /\ currentQuestion = NullQuestion
  /\ probe' = [fn |-> "LevelTypes", level |-> level, pool |-> <<>>,
               out |-> LevelTypes(level)]
  /\ lastEvent' = Event("apply", FALSE)
  /\ Frame

ApplyGetPoolForLevel(type) ==
  /\ currentQuestion = NullQuestion
  /\ probe' = [fn |-> "getPoolForLevel", level |-> level, pool |-> PoolFor(type),
               out |-> getPoolForLevel(PoolFor(type), level)]
  /\ lastEvent' = Event("apply", FALSE)
  /\ Frame

\* the queues a call can find: nothing, the most famous country, the last
\* country of the largest file, or both
QueueInputs == SUBSET {ToString(1), ToString(AtlasSize)}

ApplyGetNextCountryForType(type, codes) ==
  /\ currentQuestion = NullQuestion
  /\ typeIndexRef = 0
  /\ \E out \in getNextCountryForType(type, level, [EmptyQueues EXCEPT ![type] = codes]) :
       probe' = [fn |-> "getNextCountryForType", level |-> level, pool |-> PoolFor(type),
                 type |-> type, before |-> codes, out |-> out]
  /\ lastEvent' = Event("apply", FALSE)
  /\ Frame

ApplyBuildNextQuestion ==
  /\ currentQuestion = NullQuestion
  /\ probe = NoProbe
  /\ handleNext(level)
  /\ lastEvent' = Event("build", FALSE)
  /\ UNCHANGED <<dataVars, score, highScore, currentStreak, hearts, gameOver, level,
                 correctInLevel, mastery, achievements, hintsLeft, skipsLeft,
                 nextTimeoutRef, probe>>
  /\ UNCHANGED <<stored, mount>>

PureNext ==
  \/ \E tix \in 1..MaxTypeIndex : SetCursor(tix)
  \/ ApplyLevelTypes
  \/ \E type \in {"map_tap", "flag_match", "capital_mcq"} : ApplyGetPoolForLevel(type)
  \/ \E type \in {"map_tap", "flag_match"} : \E codes \in QueueInputs :
       ApplyGetNextCountryForType(type, codes)
  \/ ApplyBuildNextQuestion

PureSpec == PureInit /\ [][PureNext]_vars

\* ------------------------------------------------- start-up and reload
\* the useState defaults of the fields the blob holds
DefaultProgress ==
  [highScore |-> 0, score |-> 0, level |-> 1, hearts |-> MaxHearts,
   correctInLevel |-> 0, streak |-> 0, mastery |-> [c \in CodesOf(Catalog) |-> 0],
   achievements |-> {}]

\* the first render of a visit: every field at its default, the effects not
\* run yet
FirstRender ==
  /\ featureIndex = {}
  /\ geoFetch = "pending"
  /\ riverFetch = "pending"
  /\ isDataLoaded = FALSE
  /\ Mount
  /\ Restore(DefaultProgress)
  /\ mount = [phase |-> "rendered", data |-> NoBlob]

\* a returning player opens the page: the blob of the earlier visit (level 2,
\* one heart left) is in localStorage
MountInit ==
  /\ countriesData = Catalog
  /\ FirstRender
  /\ stored \in {data \in SavedProgress : data.level = 2}

\* The effects of the first commit, in the order they are declared: the load
\* effect reads the stored blob and queues a setter per field, then the save
\* effect serialises the values of this render.
MountEffects ==
  /\ mount.phase = "rendered"
  /\ mount' = IF stored # NoBlob THEN [phase |-> "restoring", data |-> stored]
              ELSE Mounted
  /\ stored' = CurrentBlob
  /\ lastEvent' = Event("mount", FALSE)
  /\ UNCHANGED <<dataVars, currentQuestion, score, highScore, currentStreak, hearts,
                 gameOver, level, correctInLevel, mastery, achievements, hintsLeft,
                 skipsLeft, removedIndices, queueRef, typeIndexRef, nextTimeoutRef,
                 queueLevel, probe>>

\* the render with the values the load effect set, followed by the save
\* effect, whose dependencies have changed
Rerender ==
  /\ mount.phase = "restoring"
  /\ score' = mount.data.score
  /\ highScore' = mount.data.highScore
  /\ currentStreak' = mount.data.streak
  /\ hearts' = mount.data.hearts
  /\ level' = mount.data.level
  /\ correctInLevel' = mount.data.correctInLevel
  /\ mastery' = mount.data.mastery
  /\ achievements' = mount.data.achievements
  /\ mount' = Mounted
  /\ lastEvent' = Event("restored", FALSE)
  /\ UNCHANGED <<dataVars, currentQuestion, gameOver, hintsLeft, skipsLeft,
                 removedIndices, queueRef, typeIndexRef, nextTimeoutRef, queueLevel,
                 probe>>
  /\ stored' = CurrentBlob'

\* the player reloads the page: the component is mounted afresh, only
\* localStorage survives
Reload ==
  /\ mount.phase = "done"
  /\ featureIndex' = {}
  /\ geoFetch' = "pending"
  /\ riverFetch' = "pending"
  /\ isDataLoaded' = FALSE
  /\ currentQuestion' = NullQuestion
  /\ gameOver' = FALSE
  /\ hintsLeft' = InitialHints
  /\ skipsLeft' = InitialSkips
  /\ removedIndices' = {}
  /\ queueRef' = EmptyQueues
  /\ typeIndexRef' = 0
  /\ nextTimeoutRef' = NoTimer
  /\ queueLevel' = [t \in QuestionType |-> 0]
  /\ score' = DefaultProgress.score
  /\ highScore' = DefaultProgress.highScore
  /\ currentStreak' = DefaultProgress.streak
  /\ hearts' = DefaultProgress.hearts
  /\ level' = DefaultProgress.level
  /\ correctInLevel' = DefaultProgress.correctInLevel
  /\ mastery' = DefaultProgress.mastery
  /\ achievements' = DefaultProgress.achievements
  /\ mount' = [phase |-> "rendered", data |-> NoBlob]
  /\ lastEvent' = Event("reload", FALSE)
  /\ UNCHANGED <<countriesData, stored, probe>>

\* what can happen once start-up is over
Play ==
  /\ mount.phase = "done"
  /\ \/ loadGeoJson(TRUE)
     \/ loadRivers(TRUE)
     \/ DataLoadedTimer
     \/ FirstQuestion
     \/ \E index \in 0..(MaxOptions - 1) : FirstAnswer(index)
     \/ NextTimeoutFires
     \/ restartGame

MountNext ==
  \/ MountEffects
  \/ Rerender
  \/ Reload
  \/ Play

MountSpec == MountInit /\ [][MountNext]_vars

\* ------------------------------------------------- the option builders
\* A countries_merged.json in fame order (population + area / 10, falling)
\* with the fields the option, neighbour and pair builders read.  Names are
\* unique, as country names are; capitals are not: Q and R share one and U
\* has none.  W, in two border lists, is a code the file has no entry for.
\* U has no cca3.  The populations and areas put pairs on both edges of the
\* ratio window: 104/100, 105/100, 106/100, 499/100, 500/100, 501/100, and
\* the areas of S and Q are equal.
Gazetteer ==
  << [name |-> "T", cca3 |-> "T", flag |-> TRUE, capital |-> "t", geom |-> FALSE,
      borders |-> <<>>, subregion |-> "s2", region |-> "r1",
      population |-> 500, area |-> 499],
     [name |-> "P", cca3 |-> "P", flag |-> TRUE, capital |-> "p", geom |-> FALSE,
      borders |-> <<"Q", "R", "W">>, subregion |-> "s1", region |-> "r1",
      population |-> 100, area |-> 500],
     [name |-> "S", cca3 |-> "S", flag |-> TRUE, capital |-> "s", geom |-> FALSE,
      borders |-> <<"R">>, subregion |-> "s1", region |-> "r1",
      population |-> 106, area |-> 100],
     [name |-> "Q", cca3 |-> "Q", flag |-> TRUE, capital |-> "q", geom |-> FALSE,
      borders |-> <<"P">>, subregion |-> "s1", region |-> "r1",
      population |-> 104, area |-> 100],
     [name |-> "R", cca3 |-> "R", flag |-> TRUE, capital |-> "q", geom |-> FALSE,
      borders |-> <<"P", "S">>, subregion |-> "s2", region |-> "r1",
      population |-> 105, area |-> 0],
     [name |-> "U", cca3 |-> NoCode, flag |-> TRUE, capital |-> "", geom |-> FALSE,
      borders |-> <<"W">>, subregion |-> "s3", region |-> "r2",
      population |-> 0, area |-> 501] >>

\* the files that hold at most MaxPool of these countries
Datasets ==
  {Filter(Gazetteer, keep) :
     keep \in {k \in SUBSET (1..Len(Gazetteer)) : Cardinality(k) <= MaxPool}}

\* an optional argument that was not passed
Undefined == "undefined"

\* finalOptions.indexOf(value), counted from 0
indexOf(items, value) ==
  IF \E k \in 1..Len(items) : items[k] = value
  THEN (CHOOSE k \in 1..Len(items) :
          items[k] = value /\ \A j \in 1..(k - 1) : items[j] # value) - 1
  ELSE -1

RECURSIVE AddOptions(_, _, _, _, _)
\* the loop over shuffled from position i on; options is the Set so far, in
\* insertion order; key names the field valueSelector reads
AddOptions(shuffled, i, key, correctValue, options) ==
  IF i > Len(shuffled) THEN options
  ELSE LET value == shuffled[i][key]
       IN IF value = "" \/ value = correctValue
          THEN AddOptions(shuffled, i + 1, key, correctValue, options)
          ELSE LET next == IF \E k \in 1..Len(options) : options[k] = value
                           THEN options ELSE Append(options, value)
               IN IF Len(next) >= MaxOptions THEN next
                  ELSE AddOptions(shuffled, i + 1, key, correctValue, next)

\* the option at position 0 is taken for the correct one
buildOptionSet_FirstIndex(pool, correct, key, preferredValue) ==
  LET correctValue == IF preferredValue = Undefined THEN correct[key] ELSE preferredValue
  IN UNION {{[options |-> finalOptions, correctIndex |-> 0] :
               finalOptions \in shuffle(AddOptions(shuffled, 1, key, correctValue,
                                                   <<correctValue>>))} :
              shuffled \in shuffle(pool)}

buildOptionSet(pool, correct, key, preferredValue) ==
  LET correctValue == IF preferredValue = Undefined THEN correct[key] ELSE preferredValue
  IN UNION {{[options |-> finalOptions,
              correctIndex |-> indexOf(finalOptions, correctValue)] :
               finalOptions \in shuffle(AddOptions(shuffled, 1, key, correctValue,
                                                   <<correctValue>>))} :
              shuffled \in shuffle(pool)}

\* pool.find((country) => country.name === option)?.cca3 ?? null
FindCca3(pool, option) ==
  IF \E k \in 1..Len(pool) : pool[k].name = option
  THEN pool[CHOOSE k \in 1..Len(pool) :
              pool[k].name = option /\ \A j \in 1..(k - 1) : pool[j].name # option].cca3
  ELSE NoCode

buildOptionSetForCountries(pool, correct) ==
  UNION {{[options |-> finalOptions,
           correctIndex |-> indexOf(finalOptions, correct.name),
           optionCca3s |-> [k \in 1..Len(finalOptions) |-> FindCca3(pool, finalOptions[k])]] :
            finalOptions \in shuffle(AddOptions(shuffled, 1, "name", correct.name,
                                                <<correct.name>>))} :
           shuffled \in shuffle(pool)}

\* any file of the gazetteer at level 1, nothing presented and no builder applied yet
BuilderInit ==
  /\ countriesData \in Datasets
  /\ featureIndex = {}
  /\ geoFetch = "loaded"
  /\ riverFetch = "loaded"
  /\ isDataLoaded = TRUE
  /\ Mount
  /\ level = 1
  /\ score = 0
  /\ highScore = 0
  /\ currentStreak = 0
  /\ hearts = MaxHearts
  /\ correctInLevel = 0
  /\ mastery = [c \in CodesOf(countriesData) |-> 0]
  /\ achievements = {}
  /\ Settled

\* a builder applied to the level's slice of the whole file
ApplyBuildOptionSet(correct, key) ==
  /\ probe = NoProbe
  /\ \E pool \in {getPoolForLevel(countriesData, level)} :
       \E out \in buildOptionSet(pool, correct, key,
                                 IF key = "capital" THEN correct.capital ELSE Undefined) :
          probe' = [fn |-> "buildOptionSet", level |-> level, pool |-> pool,
                    correct |-> correct, key |-> key, out |-> out]
  /\ lastEvent' = Event("apply", FALSE)
  /\ Frame

ApplyBuildOptionSetForCountries(correct) ==
  /\ probe = NoProbe
  /\ \E pool \in {getPoolForLevel(countriesData, level)} :
       \E out \in buildOptionSetForCountries(pool, correct) :
          probe' = [fn |-> "buildOptionSetForCountries", level |-> level, pool |-> pool,
                    correct |-> correct, key |-> "name", out |-> out]
  /\ lastEvent' = Event("apply", FALSE)
  /\ Frame

\* countriesByCca3.get(code), for a code that has an entry
ByCca3(code) ==
  countriesData[CHOOSE i \in 1..Len(countriesData) : countriesData[i].cca3 = code]

neighborPool ==
  Filter(countriesData,
         {i \in 1..Len(countriesData) :
            \E k \in 1..Len(countriesData[i].borders) : countriesData[i].borders[k] \in Codes})
populationPool ==
  Filter(countriesData, {i \in 1..Len(countriesData) : countriesData[i].population > 0})
areaPool ==
  Filter(countriesData, {i \in 1..Len(countriesData) : countriesData[i].area > 0})

\* a builder's result: built is FALSE for null
NoQuestion ==
  [built |-> FALSE, type |-> "none", options |-> <<>>, optionCca3s |-> <<>>,
   correctIndex |-> -1, targetCca3 |-> NoCode]

\* the borders of country that countriesByCca3 has an entry for, in order
Neighbors(country) ==
  LET found == Filter(country.borders,
                      {k \in 1..Len(country.borders) : country.borders[k] \in Codes})
  IN [k \in 1..Len(found) |-> ByCca3(found[k])]

\* only the subject and the chosen neighbour are kept out
isExcluded_NotBorders(c, country, correctNeighbor) ==
  \/ c.cca3 = country.cca3
  \/ c.cca3 = correctNeighbor.cca3

isExcluded(c, country, correctNeighbor) ==
  \/ c.cca3 = country.cca3
  \/ /\ c.cca3 # NoCode
     /\ \E k \in 1..Len(country.borders) : country.borders[k] = c.cca3
  \/ c.cca3 = correctNeighbor.cca3

\* items.find((s) => s.cca3 === cca3) finds an entry
FindsCca3(items, cca3) == \E k \in 1..Len(items) : items[k].cca3 = cca3

\* the candidates pushed: the neighbour, then distractors up to four in all
Candidates(correctNeighbor, distractors) ==
  SubSeq(<<correctNeighbor>> \o distractors, 1, Min(MaxOptions, 1 + Len(distractors)))

\* the questions built when correctNeighbor is drawn, one for every order the
\* three distractor lists and the candidates can be shuffled into
NeighborQuestions(country, correctNeighbor, lvl) ==
  LET countries == countriesData
      Free(c) == ~isExcluded(c, country, correctNeighbor)
      Question(finalCandidates) ==
        LET finalOptions == [k \in 1..Len(finalCandidates) |-> finalCandidates[k].name]
        IN [built |-> TRUE, type |-> "neighbor_mcq", options |-> finalOptions,
            optionCca3s |-> [k \in 1..Len(finalCandidates) |-> finalCandidates[k].cca3],
            correctIndex |-> indexOf(finalOptions, correctNeighbor.name),
            targetCca3 |-> correctNeighbor.cca3]
  IN UNION {UNION {UNION {
       {Question(finalCandidates) :
          finalCandidates \in
            shuffle(Candidates(correctNeighbor,
                               subregionDistractors \o regionDistractors
                                 \o globalDistractors))} :
       globalDistractors \in
         shuffle(LET generalPool == getPoolForLevel(countries, lvl)
                 IN Filter(generalPool,
                           {i \in 1..Len(generalPool) :
                              /\ Free(generalPool[i])
                              /\ ~FindsCca3(subregionDistractors, generalPool[i].cca3)
                              /\ ~FindsCca3(regionDistractors, generalPool[i].cca3)}))} :
       regionDistractors \in
         shuffle(Filter(countries,
                        {i \in 1..Len(countries) :
                           /\ countries[i].region = country.region
                           /\ Free(countries[i])
                           /\ ~FindsCca3(subregionDistractors, countries[i].cca3)}))} :
       subregionDistractors \in
         shuffle(Filter(countries,
                        {i \in 1..Len(countries) :
                           /\ countries[i].subregion = country.subregion
                           /\ Free(countries[i])}))}

\* the neighbor_mcq branch of buildQuestionForType for the subject country
buildNeighborQuestion(country, lvl) ==
  LET neighbors == Neighbors(country)
  IN IF Len(neighbors) = 0 THEN {NoQuestion}
     ELSE UNION {NeighborQuestions(country, neighbors[n], lvl) : n \in 1..Len(neighbors)}

ApplyBuildNeighborQuestion(country) ==
  /\ probe = NoProbe
  /\ country.cca3 # NoCode
  /\ \E out \in buildNeighborQuestion(country, level) :
       probe' = [fn |-> "neighbor_mcq", level |-> level, pool |-> countriesData,
                 correct |-> country, key |-> "name", out |-> out]
  /\ lastEvent' = Event("apply", FALSE)
  /\ Frame

\* no country
NullEntry ==
  [name |-> "", cca3 |-> NoCode, flag |-> FALSE, capital |-> "", geom |-> FALSE,
   borders |-> <<>>, subregion |-> "", region |-> "", population |-> 0, area |-> 0]

\* pickMetricPair's null
NoPair == [found |-> FALSE, a |-> NullEntry, b |-> NullEntry, phase |-> "none"]

\* the window with its lower edge included
InWindow_Closed(valA, valB) ==
  /\ 100 * Max(valA, valB) >= 105 * Min(valA, valB)
  /\ Max(valA, valB) < 5 * Min(valA, valB)

\* ratio > 1.05 && ratio < 5.0 for ratio = max / min, both values positive.
\* The quotient rounds to the nearest double and rounding keeps the order, so
\* a ratio the code accepts lies strictly inside the window; the pairs the
\* exact comparison accepts and the rounded one does not differ from 1.05 by
\* less than 2^-52.
InWindow(valA, valB) ==
  /\ 100 * Max(valA, valB) > 105 * Min(valA, valB)
  /\ Max(valA, valB) < 5 * Min(valA, valB)

\* what one of the 50 sampling attempts can return
Sampled(shuffled, key) ==
  {[found |-> TRUE, a |-> shuffled[ij[1]], b |-> shuffled[ij[2]], phase |-> "sampled"] :
     ij \in {p \in (1..Len(shuffled)) \X (1..Len(shuffled)) :
               /\ shuffled[p[1]].cca3 # shuffled[p[2]].cca3
               /\ shuffled[p[1]][key] # 0
               /\ shuffled[p[2]][key] # 0
               /\ InWindow(shuffled[p[1]][key], shuffled[p[2]][key])}}

\* the positions i < j the fallback loops accept
FallbackPairs(shuffled, key) ==
  {p \in (1..Len(shuffled)) \X (1..Len(shuffled)) :
     /\ p[1] < p[2]
     /\ shuffled[p[1]][key] > 0
     /\ shuffled[p[2]][key] > 0
     /\ shuffled[p[1]][key] # shuffled[p[2]][key]}

\* the fallback loops: the first accepted pair in the order of the loops, or null
Fallback(shuffled, key) ==
  LET pairs == FallbackPairs(shuffled, key)
  IN IF pairs = {} THEN NoPair
     ELSE LET first == CHOOSE p \in pairs :
                         \A q \in pairs : p[1] < q[1] \/ (p[1] = q[1] /\ p[2] <= q[2])
          IN [found |-> TRUE, a |-> shuffled[first[1]], b |-> shuffled[first[2]],
              phase |-> "fallback"]

\* Every attempt can draw the same entry twice, so the fallback is reached
\* with every shuffle.
pickMetricPair(pool, key) ==
  IF Len(pool) < 2 THEN {NoPair}
  ELSE UNION {Sampled(shuffled, key) \cup {Fallback(shuffled, key)} :
                shuffled \in shuffle(pool)}

\* the key of a pair type
MetricOf(type) == IF type = "population_pair" THEN "population" ELSE "area"

\* the comparison the other way round: correctIndex is 0 when a is smaller
buildPairQuestion_Smaller(type, lvl) ==
  LET key == MetricOf(type)
      slicedPool == getPoolForLevel(IF type = "population_pair" THEN populationPool
                                    ELSE areaPool, lvl)
  IN {IF ~pair.found THEN [question |-> NoQuestion, pair |-> pair]
      ELSE [question |->
              [built |-> TRUE, type |-> type, options |-> <<pair.a.name, pair.b.name>>,
               optionCca3s |-> <<pair.a.cca3, pair.b.cca3>>,
               correctIndex |-> IF pair.a[key] < pair.b[key] THEN 0 ELSE 1,
               targetCca3 |-> NoCode],
            pair |-> pair] :
        pair \in pickMetricPair(slicedPool, key)}

\* the population_pair and area_pair branches of buildQuestionForType; the
\* pair is kept beside the question
buildPairQuestion(type, lvl) ==
  LET key == MetricOf(type)
      slicedPool == getPoolForLevel(IF type = "population_pair" THEN populationPool
                                    ELSE areaPool, lvl)
  IN {IF ~pair.found THEN [question |-> NoQuestion, pair |-> pair]
      ELSE [question |->
              [built |-> TRUE, type |-> type, options |-> <<pair.a.name, pair.b.name>>,
               optionCca3s |-> <<pair.a.cca3, pair.b.cca3>>,
               correctIndex |-> IF pair.a[key] > pair.b[key] THEN 0 ELSE 1,
               targetCca3 |-> NoCode],
            pair |-> pair] :
        pair \in pickMetricPair(slicedPool, key)}

\* pickMetricPair applied to the level's slice of the whole file
ApplyPickMetricPair(key) ==
  /\ probe = NoProbe
  /\ \E pool \in {getPoolForLevel(countriesData, level)} :
       \E out \in pickMetricPair(pool, key) :
          probe' = [fn |-> "pickMetricPair", level |-> level, pool |-> pool,
                    correct |-> NullEntry, key |-> key, out |-> out]
  /\ lastEvent' = Event("apply", FALSE)
  /\ Frame

ApplyBuildPairQuestion(type) ==
  /\ probe = NoProbe
  /\ \E out \in buildPairQuestion(type, level) :
       probe' = [fn |-> type, level |-> level, pool |-> countriesData,
                 correct |-> NullEntry, key |-> MetricOf(type), out |-> out]
  /\ lastEvent' = Event("apply", FALSE)
  /\ Frame

\* ;[next[i], next[j]] = [next[j], next[i]], positions counted from 0
Swap(next, i, j) == [next EXCEPT ![i + 1] = next[j + 1], ![j + 1] = next[i + 1]]

RECURSIVE FisherYates(_, _)
\* the loop of shuffle from position i down to 1, j being any of 0..i
FisherYates(next, i) ==
  IF i <= 0 THEN {next}
  ELSE UNION {FisherYates(Swap(next, i, j), i - 1) : j \in 0..i}

\* the swaps are made in the array passed in
ShuffleRun_InPlace(items) ==
  {[out |-> next, items |-> next] : next \in FisherYates(items, Len(items) - 1)}

\* A call of shuffle: what it returns and what the array passed in holds
\* afterwards.  The loop works on the copy [...items].
ShuffleRun(items) ==
  {[out |-> next, items |-> items] : next \in FisherYates(items, Len(items) - 1)}

\* the capitals of the file, an array with empty and repeated entries
CapitalList == [i \in 1..Len(countriesData) |-> countriesData[i].capital]

ApplyShuffle ==
  /\ probe = NoProbe
  /\ \E run \in ShuffleRun(CapitalList) :
       probe' = [fn |-> "shuffle", level |-> level, pool |-> CapitalList,
                 items |-> run.items, out |-> run.out]
  /\ lastEvent' = Event("apply", FALSE)
  /\ Frame

BuilderNext ==
  \/ ApplyShuffle
  \/ \E c \in 1..Len(Gazetteer) : \E key \in {"name", "capital"} :
       ApplyBuildOptionSet(Gazetteer[c], key)
  \/ \E c \in 1..Len(Gazetteer) : ApplyBuildOptionSetForCountries(Gazetteer[c])
  \/ \E i \in 1..Len(countriesData) : ApplyBuildNeighborQuestion(countriesData[i])
  \/ \E key \in {"population", "area"} : ApplyPickMetricPair(key)
  \/ \E type \in {"population_pair", "area_pair"} : ApplyBuildPairQuestion(type)

BuilderSpec == BuilderInit /\ [][BuilderNext]_vars

\* ------------------------------------------------------- the map-tap test
\* Border records as loadGeoJson indexes them, coordinates in whole degrees,
\* rings closed and wound as GeoJSON asks (outer rings counter-clockwise,
\* holes clockwise); none of the rings crosses itself:
\*   island   a square of 2 degrees
\*   square   a square of 6 degrees
\*   wedge    a right triangle
\*   horseshoe  a U of 42 by 42 degrees whose notch is 14 wide and 28 deep
\*   ring     a square of 18 degrees with a square hole of 6 in its middle
\*   twins    a MultiPolygon of two squares
Square(west, south, side) ==
  << <<west, south>>, <<west + side, south>>, <<west + side, south + side>>,
     <<west, south + side>>, <<west, south>> >>

Geometries ==
  { [cca3 |-> "island", type |-> "Polygon", coordinates |-> <<Square(0, 0, 2)>>],
    [cca3 |-> "square", type |-> "Polygon", coordinates |-> <<Square(0, 0, 6)>>],
    [cca3 |-> "wedge", type |-> "Polygon",
     coordinates |-> << << <<0, 0>>, <<6, 0>>, <<0, 6>>, <<0, 0>> >> >>],
    [cca3 |-> "horseshoe", type |-> "Polygon",
     coordinates |-> << << <<0, 0>>, <<42, 0>>, <<42, 42>>, <<28, 42>>, <<28, 14>>,
                           <<14, 14>>, <<14, 42>>, <<0, 42>>, <<0, 0>> >> >>],
    [cca3 |-> "ring", type |-> "Polygon",
     coordinates |-> << Square(0, 0, 18),
                        << <<6, 6>>, <<6, 12>>, <<12, 12>>, <<12, 6>>, <<6, 6>> >> >>],
    [cca3 |-> "twins", type |-> "MultiPolygon",
     coordinates |-> << <<Square(0, 0, 2)>>, <<Square(4, 0, 2)>> >>] }

\* the points of a ring
RingPoints(ring) == {ring[k] : k \in 1..Len(ring)}

\* the points forEachCoordinate visits
Coordinates(geometry) ==
  IF geometry.type = "Polygon"
  THEN UNION {RingPoints(geometry.coordinates[r]) : r \in 1..Len(geometry.coordinates)}
  ELSE UNION {UNION {RingPoints(geometry.coordinates[p][r]) :
                       r \in 1..Len(geometry.coordinates[p])} :
                p \in 1..Len(geometry.coordinates)}

\* [west, south, east, north]
computeBBox(geometry) ==
  LET points == Coordinates(geometry)
  IN << CHOOSE x \in {p[1] : p \in points} : \A p \in points : x <= p[1],
        CHOOSE y \in {p[2] : p \in points} : \A p \in points : y <= p[2],
        CHOOSE x \in {p[1] : p \in points} : \A p \in points : x >= p[1],
        CHOOSE y \in {p[2] : p \in points} : \A p \in points : y >= p[2] >>

\* index.set(cca3, { feature, bbox })
FeatureRecord(geometry) == [feature |-> geometry, bbox |-> computeBBox(geometry)]

isPointInBBox(lng, lat, bbox) ==
  lng >= bbox[1] /\ lng <= bbox[3] /\ lat >= bbox[2] /\ lat <= bbox[4]

\* The edge from ring[j] to ring[i] is crossed by the ray from the point to
\* the east.  The quotient is compared after multiplying by yj - yi; the
\* Number.EPSILON in the divisor moves the crossing by less than one part in
\* 10^15, which decides the test only for a point on the line of an edge, and
\* no tap of TapPoints inside a bounding box lies on one.
Intersects(point, ring, i, j) ==
  LET xi == ring[i][1]
      yi == ring[i][2]
      xj == ring[j][1]
      yj == ring[j][2]
  IN /\ (yi > point[2]) # (yj > point[2])
     /\ IF yj - yi > 0
        THEN (point[1] - xi) * (yj - yi) < (xj - xi) * (point[2] - yi)
        ELSE (point[1] - xi) * (yj - yi) > (xj - xi) * (point[2] - yi)

\* inside starts as true
isPointInRing_StartsInside(point, ring) ==
  Cardinality({i \in 1..Len(ring) :
                 Intersects(point, ring, i, IF i = 1 THEN Len(ring) ELSE i - 1)}) % 2 = 0

\* inside is toggled once for every crossed edge
isPointInRing(point, ring) ==
  Cardinality({i \in 1..Len(ring) :
                 Intersects(point, ring, i, IF i = 1 THEN Len(ring) ELSE i - 1)}) % 2 = 1

\* the holes are not looked at
isPointInPolygon_NoHoles(point, polygon) ==
  /\ Len(polygon) > 0
  /\ isPointInRing(point, polygon[1])

isPointInPolygon(point, polygon) ==
  /\ Len(polygon) > 0
  /\ isPointInRing(point, polygon[1])
  /\ \A h \in 2..Len(polygon) : ~isPointInRing(point, polygon[h])

isPointInFeature(lng, lat, record) ==
  /\ isPointInBBox(lng, lat, record.bbox)
  /\ IF record.feature.type = "Polygon"
     THEN isPointInPolygon(<<lng, lat>>, record.feature.coordinates)
     ELSE \E p \in 1..Len(record.feature.coordinates) :
            isPointInPolygon(<<lng, lat>>, record.feature.coordinates[p])

\* map.project at a zoom that shows one degree as scale pixels: east is +x,
\* north is -y.  (Low latitudes, where the Mercator projection is close to
\* this one.)
project(lngLat, scale) == <<scale * lngLat[1], 0 - scale * lngLat[2]>>

\* twice the cross product of q - p and c - p
Side(p, q, c) == (q[1] - p[1]) * (c[2] - p[2]) - (q[2] - p[2]) * (c[1] - p[1])

\* the segment from p to q meets the closed box [lo, hi] (separating axes:
\* the two axes of the box and the normal of the segment)
SegmentMeetsBox(p, q, lo, hi) ==
  LET corners == {<<lo[1], lo[2]>>, <<lo[1], hi[2]>>, <<hi[1], lo[2]>>, <<hi[1], hi[2]>>}
  IN /\ Max(p[1], q[1]) >= lo[1]
     /\ Min(p[1], q[1]) <= hi[1]
     /\ Max(p[2], q[2]) >= lo[2]
     /\ Min(p[2], q[2]) <= hi[2]
     /\ ~ \A c \in corners : Side(p, q, c) > 0
     /\ ~ \A c \in corners : Side(p, q, c) < 0

\* the rings of a geometry
Rings(geometry) ==
  IF geometry.type = "Polygon"
  THEN {geometry.coordinates[r] : r \in 1..Len(geometry.coordinates)}
  ELSE UNION {{geometry.coordinates[p][r] : r \in 1..Len(geometry.coordinates[p])} :
                p \in 1..Len(geometry.coordinates)}

\* map.queryRenderedFeatures(clickBounds, {layers: ['country-fill']}) returns
\* the target: its fill, drawn at the given scale, meets the box of TapMargin pixels
\* around the tap.  The fill meets the box when the tap is inside the
\* geometry or an edge of it passes through the box.
RendersTarget(record, lngLat, scale) ==
  LET point == project(lngLat, scale)
      lo == <<point[1] - TapMargin, point[2] - TapMargin>>
      hi == <<point[1] + TapMargin, point[2] + TapMargin>>
  IN \/ isPointInFeature(lngLat[1], lngLat[2], record)
     \/ \E ring \in Rings(record.feature) : \E k \in 1..(Len(ring) - 1) :
          SegmentMeetsBox(project(ring[k], scale), project(ring[k + 1], scale), lo, hi)

\* the target is taken for small whatever it measures
isSmallTargetHit_AnySize(bbox, lngLat, scale) ==
  LET clickPoint == project(lngLat, scale)
      dx2 == 2 * clickPoint[1] - scale * (bbox[1] + bbox[3])
      dy2 == 2 * clickPoint[2] + scale * (bbox[2] + bbox[4])
  IN dx2 * dx2 + dy2 * dy2 <= 4 * TapRadius * TapRadius

\* dx2 and dy2 are twice dx and dy: bboxCenter can fall on half a degree
isSmallTargetHit(bbox, lngLat, scale) ==
  LET topLeft == project(<<bbox[1], bbox[4]>>, scale)
      bottomRight == project(<<bbox[3], bbox[2]>>, scale)
      width == bottomRight[1] - topLeft[1]
      height == bottomRight[2] - topLeft[2]
      clickPoint == project(lngLat, scale)
      dx2 == 2 * clickPoint[1] - scale * (bbox[1] + bbox[3])
      dy2 == 2 * clickPoint[2] + scale * (bbox[2] + bbox[4])
  IN /\ Max(width, height) <= SmallTarget
     /\ dx2 * dx2 + dy2 * dy2 <= 4 * TapRadius * TapRadius

\* isCorrect of handleMapTap for a tap at lngLat
isCorrectTap(record, lngLat, scale) ==
  \/ isPointInFeature(lngLat[1], lngLat[2], record)
  \/ RendersTarget(record, lngLat, scale)
  \/ isSmallTargetHit(record.bbox, lngLat, scale)

RECURSIVE RingMoments(_, _)
\* for the edges of a closed ring from position k on, the sums of w,
\* (x + x') * w and (y + y') * w with w = x * y' - x' * y: twice the signed
\* area and six times the signed area times the centroid
RingMoments(ring, k) ==
  IF k >= Len(ring) THEN <<0, 0, 0>>
  ELSE LET w == ring[k][1] * ring[k + 1][2] - ring[k + 1][1] * ring[k][2]
           rest == RingMoments(ring, k + 1)
       IN <<w + rest[1],
            (ring[k][1] + ring[k + 1][1]) * w + rest[2],
            (ring[k][2] + ring[k + 1][2]) * w + rest[3]>>

RECURSIVE PolygonMoments(_, _)
\* the sums over the rings from position r on; a hole, wound the other way, counts negative
PolygonMoments(polygon, r) ==
  IF r > Len(polygon) THEN <<0, 0, 0>>
  ELSE LET ring == RingMoments(polygon[r], 1)
           rest == PolygonMoments(polygon, r + 1)
       IN <<ring[1] + rest[1], ring[2] + rest[2], ring[3] + rest[3]>>

\* point is the centroid of the area of the polygon
IsCentroid(point, polygon) ==
  LET m == PolygonMoments(polygon, 1)
  IN 3 * m[1] * point[1] = m[2] /\ 3 * m[1] * point[2] = m[3]

\* the distances east of the bounding box that are tapped
TapOffsets == {1, 3, 7, 12, 30}

\* The taps made on a target: its centroid when it is a polygon and the
\* centroid falls on whole degrees, the point one degree inside the
\* south-west corner of the bounding box, and points east of the box.
TapPoints(record) ==
  LET bbox == record.bbox
  IN {p \in (bbox[1]..bbox[3]) \X (bbox[2]..bbox[4]) :
        record.feature.type = "Polygon" /\ IsCentroid(p, record.feature.coordinates)}
     \cup {<<bbox[1] + 1, bbox[2] + 1>>}
     \cup {<<bbox[3] + d, bbox[2] + 1>> : d \in TapOffsets}

\* the Catalog dataset loaded, no tap made yet
TapInit ==
  /\ countriesData = Catalog
  /\ featureIndex = GeoJsonCodes(Catalog)
  /\ geoFetch = "loaded"
  /\ riverFetch = "loaded"
  /\ isDataLoaded = TRUE
  /\ Mount
  /\ level = 1
  /\ score = 0
  /\ highScore = 0
  /\ currentStreak = 0
  /\ hearts = MaxHearts
  /\ correctInLevel = 0
  /\ mastery = [c \in CodesOf(Catalog) |-> 0]
  /\ achievements = {}
  /\ Settled

\* handleMapTap decides a tap at lngLat on the target, shown at scale pixels to the degree
ApplyIsCorrectTap(geometry, scale) ==
  /\ probe = NoProbe
  /\ \E record \in {FeatureRecord(geometry)} : \E lngLat \in TapPoints(record) :
       probe' = [fn |-> "isCorrect", level |-> level, pool |-> <<>>, record |-> record,
                 lngLat |-> lngLat, scale |-> scale,
                 out |-> isCorrectTap(record, lngLat, scale)]
  /\ lastEvent' = Event("apply", FALSE)
  /\ Frame

\* the point lies on an edge of the ring that runs neither north-south nor east-west
OnSlantedEdge(point, ring) ==
  \E k \in 1..(Len(ring) - 1) :
    /\ ring[k][1] # ring[k + 1][1]
    /\ ring[k][2] # ring[k + 1][2]
    /\ Side(ring[k], ring[k + 1], point) = 0
    /\ point[2] >= Min(ring[k][2], ring[k + 1][2])
    /\ point[2] <= Max(ring[k][2], ring[k + 1][2])

\* The points isPointInFeature is asked about: the whole degrees of the
\* bounding box and of a margin of one degree around it.  For a point on a
\* slanted edge the rounding of the quotient decides the crossing test, so
\* those are left out.
TestPoints(record) ==
  {p \in ((record.bbox[1] - 1)..(record.bbox[3] + 1))
          \X ((record.bbox[2] - 1)..(record.bbox[4] + 1)) :
     \A ring \in Rings(record.feature) : ~OnSlantedEdge(p, ring)}

\* isPointInFeature applied; ringsRead tells whether the call got past the
\* bounding-box test to the rings
ApplyIsPointInFeature(geometry) ==
  /\ probe = NoProbe
  /\ \E record \in {FeatureRecord(geometry)} : \E lngLat \in TestPoints(record) :
       probe' = [fn |-> "isPointInFeature", level |-> level, pool |-> <<>>,
                 record |-> record, lngLat |-> lngLat,
                 ringsRead |-> isPointInBBox(lngLat[1], lngLat[2], record.bbox),
                 out |-> isPointInFeature(lngLat[1], lngLat[2], record)]
  /\ lastEvent' = Event("apply", FALSE)
  /\ Frame

\* isSmallTargetHit applied to the bounding box of a target and a tap
ApplyIsSmallTargetHit(geometry, scale) ==
  /\ probe = NoProbe
  /\ \E record \in {FeatureRecord(geometry)} : \E lngLat \in TapPoints(record) :
       probe' = [fn |-> "isSmallTargetHit", level |-> level, pool |-> <<>>,
                 record |-> record, lngLat |-> lngLat, scale |-> scale,
                 out |-> isSmallTargetHit(record.bbox, lngLat, scale)]
  /\ lastEvent' = Event("apply", FALSE)
  /\ Frame

\* The features of an admin-0 file.  iterable is FALSE where the file has
\* "coordinates": null, which the for-of of forEachCoordinate cannot walk.
Features ==
  { [cca3 |-> "island", type |-> "Polygon", coordinates |-> <<Square(0, 0, 2)>>,
     iterable |-> TRUE],
    [cca3 |-> "twins", type |-> "MultiPolygon",
     coordinates |-> << <<Square(0, 0, 2)>>, <<Square(4, 0, 2)>> >>, iterable |-> TRUE],
    [cca3 |-> NoCode, type |-> "Polygon", coordinates |-> <<Square(0, 0, 6)>>,
     iterable |-> TRUE],
    [cca3 |-> "dot", type |-> "Point", coordinates |-> <<0, 0>>, iterable |-> TRUE],
    [cca3 |-> "torn", type |-> "Polygon", coordinates |-> <<>>, iterable |-> FALSE] }

FeatureLists == UNION {[1..n -> Features] : n \in 0..MaxFeatures}

RECURSIVE IndexLoop(_, _, _)
\* The for loop of loadGeoJson from feature k on.  computeBBox throws a
\* TypeError on coordinates that are not iterable, and the loop has no catch
\* of its own.
IndexLoop(features, k, index) ==
  IF k > Len(features) THEN [thrown |-> FALSE, index |-> index]
  ELSE LET feature == features[k]
       IN IF feature.cca3 = NoCode THEN IndexLoop(features, k + 1, index)
          ELSE IF feature.type \notin {"Polygon", "MultiPolygon"}
               THEN IndexLoop(features, k + 1, index)
          ELSE IF ~feature.iterable THEN [thrown |-> TRUE, index |-> index]
          ELSE IndexLoop(features, k + 1,
                         (feature.cca3 :> FeatureRecord(feature)) @@ index)

\* loadGeoJson once the response is read: setFeatureIndex(index) when the loop
\* ends, console.error(error) and the empty Map of useState when it throws
ApplyLoadGeoJson(features) ==
  /\ probe = NoProbe
  /\ \E run \in {IndexLoop(features, 1, <<>>)} :
       probe' = [fn |-> "loadGeoJson", level |-> level, pool |-> features,
                 thrown |-> run.thrown,
                 out |-> IF run.thrown THEN <<>> ELSE run.index]
  /\ lastEvent' = Event("apply", FALSE)
  /\ Frame

\* pool lengths at and just past every cut of getPoolForLevel
LongPoolSizes == {n \in 0..MaxLongPool : n % 10 \in {0, 1}}

\* getPoolForLevel at level lvl on an array of size entries, the entries being 1..size
ApplyGetPoolForLevelOfSize(size, lvl) ==
  /\ probe = NoProbe
  /\ \E pool \in {[i \in 1..size |-> i]} :
       probe' = [fn |-> "getPoolForLevel", level |-> lvl, pool |-> pool,
                 out |-> getPoolForLevel(pool, lvl)]
  /\ lastEvent' = Event("apply", FALSE)
  /\ Frame

TapNext ==
  \/ \E size \in LongPoolSizes : \E lvl \in 1..MaxLevel :
       ApplyGetPoolForLevelOfSize(size, lvl)
  \/ \E features \in FeatureLists : ApplyLoadGeoJson(features)
  \/ \E geometry \in Geometries : \E scale \in 1..MaxScale :
       ApplyIsSmallTargetHit(geometry, scale)
  \/ \E geometry \in Geometries : \E scale \in 1..MaxScale : ApplyIsCorrectTap(geometry, scale)
  \/ \E geometry \in Geometries : ApplyIsPointInFeature(geometry)

TapSpec == TapInit /\ [][TapNext]_vars

\* ----------------------------------------------------------- step kinds
\* the step just taken, read off the event it recorded
AnswerStep == lastEvent'.kind \in {"option", "map"}
CorrectStep == AnswerStep /\ lastEvent'.correct
IncorrectStep == AnswerStep /\ ~lastEvent'.correct

JustAnswered == lastEvent.kind \in {"option", "map"}
JustCorrect == JustAnswered /\ lastEvent.correct
JustIncorrect == JustAnswered /\ ~lastEvent.correct

Progress == <<score, currentStreak, hearts, level, correctInLevel, mastery>>

\* ------------------------------------------------------------------ claims

\* C1: hearts is always an integer in 0..3.
C1_HeartsInRange == hearts \in 0..MaxHearts

\* C2: an answer given right after another answer to the same question (the
\* advance timer has not replaced the question yet) changes none of score,
\* streak, hearts, level, correctInLevel and mastery.
C2_SecondAnswerIgnored ==
  [][(JustAnswered /\ AnswerStep) => UNCHANGED Progress]_vars

\* C3: after any incorrect answer (option or map tap) streak = 0 and
\* correctInLevel = 0 and hearts has decreased by exactly 1.
C3_IncorrectResets ==
  [][IncorrectStep =>
       /\ currentStreak' = 0
       /\ correctInLevel' = 0
       /\ hearts' = hearts - 1]_vars

\* C4: correctInLevel counts the consecutive correct answers of the level: it
\* stays in 0..4, each of the first four correct answers of a run adds one to
\* it and leaves level alone, and the fifth raises level by exactly 1 and
\* puts correctInLevel back to 0.
C4_FiveCorrectLevelUp ==
  [][/\ correctInLevel \in 0..4
     /\ correctInLevel' \in 0..4
     /\ CorrectStep =>
          IF correctInLevel = 4
          THEN level' = level + 1 /\ correctInLevel' = 0
          ELSE level' = level /\ correctInLevel' = correctInLevel + 1]_vars

\* a correct answer has just completed a level
C4_Witness == JustCorrect /\ correctInLevel = 0 /\ level = 3 /\ currentStreak = 5

\* C5: an incorrect answer that brings hearts to 0 sets gameOver in the same
\* step, and gameOver stays true until restartGame runs.
C5_GameOverSticky ==
  [][/\ (IncorrectStep /\ hearts' = 0) => gameOver'
     /\ (gameOver /\ lastEvent'.kind # "restart") => gameOver']_vars

\* the last heart has just been lost
C5_Witness == JustIncorrect /\ hearts = 0 /\ gameOver

\* C6: while gameOver is true no option selection or map tap changes score,
\* streak, hearts, level, correctInLevel or mastery.
C6_NoAnswerAfterGameOver ==
  [][(gameOver /\ AnswerStep) => UNCHANGED Progress]_vars

\* C7: a correct answer adds round(base(t) * (1 + 0.1 s) * (1 + 0.2 (l - 1)))
\* to score, for the type t of the question and the streak s and level l
\* before the answer; an incorrect answer, a hint and a skip leave score alone.
C7_ScoreIncrement ==
  [][/\ CorrectStep =>
          LET base == getPointsForQuestion(currentQuestion.type)
              exact50 == base * (10 + currentStreak) * (4 + level)
              gain == score' - score
          IN 50 * gain - 25 <= exact50 /\ exact50 < 50 * gain + 25
     /\ (IncorrectStep \/ lastEvent'.kind \in {"hint", "skip"}) => score' = score]_vars

\* a correct answer scored with a streak and a level multiplier at work
C7_Witness == JustCorrect /\ level = 3 /\ currentStreak = 11 /\ score > 7332

\* C8: every correct answer, map taps included, adds exactly 1 to the mastery
\* counter of the question's subject country and changes no other entry;
\* incorrect answers leave mastery unchanged.
C8_MasteryIncrement ==
  [][/\ (CorrectStep /\ currentQuestion.correctCca3 # NoCode) =>
          mastery' = [mastery EXCEPT ![currentQuestion.correctCca3] = @ + 1]
     /\ IncorrectStep => mastery' = mastery]_vars

\* C9: highScore >= score before and after every step, highScore never
\* decreases, and after a correct answer it is the larger of its old value and
\* the new score.
C9_HighScoreIsMax ==
  [][/\ highScore >= score
     /\ highScore' >= score'
     /\ highScore' >= highScore
     /\ CorrectStep => highScore' = Max(highScore, score')]_vars

\* a correct answer after a restart, with the new score below the best one
C9_Witness == JustCorrect /\ score > 0 /\ highScore > score

\* C10 as stated: a correct answer adds 1 to streak and never lowers hearts,
\* and when the new streak is a multiple of 5 hearts becomes min(hearts + 1, 3).
C10_StreakMilestoneOriginal ==
  [][CorrectStep =>
       /\ currentStreak' = currentStreak + 1
       /\ hearts' >= hearts
       /\ (currentStreak' % 5 = 0) => hearts' = Min(hearts + 1, MaxHearts)]_vars

\* C10 as amended: ... and when the new streak is a multiple of 5 hearts
\* becomes min(hearts + 1, 3), or min(hearts + 2, 3) when the same answer also
\* completes the level.
C10_StreakMilestone ==
  [][CorrectStep =>
       /\ currentStreak' = currentStreak + 1
       /\ hearts' >= hearts
       /\ (currentStreak' % 5 = 0) =>
             hearts' = Min(hearts + (IF correctInLevel = 4 THEN 2 ELSE 1), MaxHearts)]_vars

\* a correct answer has just brought the streak to a multiple of 5 and
\* restored hearts
C10_Witness == JustCorrect /\ currentStreak % 5 = 0 /\ hearts = MaxHearts /\ score = 5784

\* the step just taken presented a question
RestartStep == lastEvent'.kind = "restart"
TimerStep == lastEvent'.kind = "timer"
BuildStep == lastEvent'.kind \in {"first", "timer", "skip", "restart", "build"}

\* C11: restartGame sets hearts = 3, gameOver = false, streak = 0, score = 0,
\* level = 1, correctInLevel = 0, hintsLeft = 3 and skipsLeft = 3, presents a
\* question built at level 1 from empty per-type queues (whatever the queues
\* held before), and leaves highScore, mastery and achievements unchanged.
C11_RestartFrame ==
  [][RestartStep =>
       /\ hearts' = 3 /\ gameOver' = FALSE /\ currentStreak' = 0 /\ score' = 0
       /\ level' = 1 /\ correctInLevel' = 0 /\ hintsLeft' = 3 /\ skipsLeft' = 3
       /\ \E r \in buildNextQuestion(1, typeIndexRef, EmptyQueues) :
            /\ currentQuestion' = r.question
            /\ queueRef' = r.queue
            /\ typeIndexRef' = r.typeIndex
       /\ UNCHANGED <<highScore, mastery, achievements>>]_vars

\* a restart taken while a queue still held codes, after a game that had
\* changed the score
C11_Witness ==
  /\ lastEvent.kind = "restart"
  /\ score = 0 /\ level = 1 /\ hearts = 3
  /\ highScore = 6480
  /\ achievements = {"streak10"}
  /\ Cardinality(queueRef["flag_match"]) = 19

\* the step just taken presented a question that buildNextQuestion can
\* return for level lvl from the cursor and the queues the step started with
BuiltAt(lvl) ==
  \E r \in buildNextQuestion(lvl, typeIndexRef, queueRef) :
    /\ currentQuestion' = r.question
    /\ queueRef' = r.queue
    /\ typeIndexRef' = r.typeIndex

\* C12: the question presented immediately after an answer is built with the
\* unlocked types and the difficulty window of the level that answer left
\* (L+1 when it raised the level from L), never with those of the level
\* before the answer.
C12_NextQuestionUsesNewLevel ==
  [][(JustAnswered /\ TimerStep) => BuiltAt(level)]_vars

\* the members of a list of types
TypeSet(types) == {types[i] : i \in 1..Len(types)}

\* C13: type unlocking is monotonic: the types unlocked at a level include
\* every type unlocked at each lower level (from level 1 on).
C13_UnlockMonotonic ==
  probe.fn = "LevelTypes" =>
    \A L1 \in 1..(probe.level - 1) : TypeSet(LevelTypes(L1)) \subseteq TypeSet(probe.out)

\* the types of level 9, where every gate has opened
C13_Witness ==
  /\ probe.fn = "LevelTypes"
  /\ probe.level = 9
  /\ Len(probe.out) = 14
  /\ "flag_match" \in TypeSet(probe.out)

\* C14: no question of a type other than flag_match and capital_mcq is
\* generated while level = 1.
C14_LevelOneBaseTypes ==
  [][(BuildStep /\ level' = 1) =>
       currentQuestion'.type \in {"flag_match", "capital_mcq"}]_vars

\* the type that follows type in the loop map-tap, flag-match, capital MCQ
NextInLoop(type) ==
  CASE type = "map_tap" -> "flag_match"
    [] type = "flag_match" -> "capital_mcq"
    [] type = "capital_mcq" -> "map_tap"
    [] OTHER -> "none"

\* C15: from the first question on, map-tap, flag-match and capital-MCQ
\* questions follow one another in a repeating loop: every question presented
\* is of one of the three types, and the question after it is of the next
\* type of the loop, so each type recurs every third question.
C15_MixedRotation ==
  [][BuildStep =>
       /\ currentQuestion'.type \in {"map_tap", "flag_match", "capital_mcq"}
       /\ currentQuestion # NullQuestion =>
            currentQuestion'.type = NextInLoop(currentQuestion.type)]_vars

\* C16: for every level >= 1 and every pool, getPoolForLevel(pool, level) has
\* length at least min(10, pool.length) and contains only entries of the pool.
C16_WindowFloor ==
  probe.fn = "getPoolForLevel" =>
    /\ Len(probe.out) >= Min(10, Len(probe.pool))
    /\ \A i \in 1..Len(probe.out) : \E j \in 1..Len(probe.pool) : probe.out[i] = probe.pool[j]

\* a pool longer than the window of level 1
C16_Witness ==
  /\ probe.fn = "getPoolForLevel"
  /\ probe.level = 1
  /\ Len(probe.pool) = 21
  /\ Len(probe.out) = 20

\* every outcome of the builder of type is null, from the queues the step
\* started with
YieldsNothing(type, lvl) ==
  \A b \in buildQuestionForType(type, lvl, queueRef) : b.question = NullQuestion

\* the type of attempt number j (from 0) of a call that starts at cursor tix
AttemptType(lvl, tix, j) == LevelTypes(lvl)[((tix + j) % Len(LevelTypes(lvl))) + 1]

\* C17: buildNextQuestion always returns a question: it makes k attempts,
\* 1 <= k <= number of unlocked types, one per type in rotation order from the
\* cursor, and the cursor advances by exactly k; every attempt before the last
\* yielded nothing; the result is the 'no-data' placeholder exactly when the
\* builder of every unlocked type yields nothing (then k is the number of
\* unlocked types), and otherwise it is the question of the last attempt.
C17_AlwaysRenderable ==
  [][lastEvent'.kind = "build" =>
       LET n == Len(LevelTypes(level))
           k == typeIndexRef' - typeIndexRef
       IN /\ currentQuestion' # NullQuestion
          /\ currentQuestion'.type \in QuestionType
          /\ k \in 1..n
          /\ \A j \in 0..(k - 2) : YieldsNothing(AttemptType(level, typeIndexRef, j), level)
          /\ (currentQuestion' = NoDataQuestion) <=>
               (\A t \in TypeSet(LevelTypes(level)) : YieldsNothing(t, level))
          /\ IF currentQuestion' = NoDataQuestion
             THEN k = n /\ queueRef' = queueRef
             ELSE /\ currentQuestion'.type = AttemptType(level, typeIndexRef, k - 1)
                  /\ currentQuestion'.id = <<currentQuestion'.type, currentQuestion'.correctCca3>>]_vars

\* the placeholder returned after both types of a low level were attempted,
\* starting from cursor 1
C17_Witness ==
  /\ lastEvent.kind = "build"
  /\ currentQuestion = NoDataQuestion
  /\ typeIndexRef = 3
  /\ Len(countriesData) = 0

\* the difficulty window of type at level lvl holds a country other than code
HasAlternative(type, lvl, code) ==
  \E window \in {getPoolForLevel(PoolFor(type), lvl)} :
    \E i \in 1..Len(window) : HasCode(window[i]) /\ window[i].cca3 # code

\* C18: two consecutive questions of one type never have the same subject
\* country while the type's current difficulty window contains another
\* country; stated for a question and the question of the same type that
\* replaces it, whatever step presents the second one (advance timer, skip,
\* restart, with or without a queue refill or a level change in between).
C18_NoImmediateRepeat ==
  [][(/\ BuildStep
      /\ currentQuestion # NullQuestion
      /\ currentQuestion'.type = currentQuestion.type
      /\ currentQuestion.correctCca3 # NoCode
      /\ HasAlternative(currentQuestion.type, level', currentQuestion.correctCca3))
     => currentQuestion'.correctCca3 # currentQuestion.correctCca3]_vars

\* C19: once the geometry fetch or the river fetch has failed, the country
\* dataset being available, a first question is eventually presented to the
\* player: currentQuestion is set and the quiz panel is rendered.
C19_FetchFailureNoStall ==
  ((geoFetch = "failed" \/ riverFetch = "failed") /\ Len(countriesData) > 0)
    ~> (currentQuestion # NullQuestion /\ isDataLoaded)

\* the codes of the difficulty window of type at level lvl
WindowCodes(type, lvl) ==
  UNION {{window[i].cca3 : i \in 1..Len(window)} :
           window \in {getPoolForLevel(PoolFor(type), lvl)}} \ {NoCode}

\* every non-empty queue holds codes of one window only, the window of the
\* level of the build that last refilled it
OneWindow ==
  \A t \in QuestionType :
    /\ queueLevel[t] = 0 <=> queueRef[t] = {}
    /\ queueRef[t] # {} => queueRef[t] \subseteq WindowCodes(t, queueLevel[t])

\* C20 as claimed: all codes of a type's queue come from a single window, and
\* a code is taken from a queue that already held codes only if that queue was
\* filled at the level the game is at (a level change rebuilds the queue
\* before further codes are taken from it).
C20_RebuiltOnLevelChange ==
  [][/\ OneWindow
     /\ OneWindow'
     /\ BuildStep =>
          \A t \in QuestionType :
            (queueRef[t] # {} /\ queueRef'[t] # queueRef[t]) => queueLevel[t] = level']_vars

\* C20, amended: all codes of a type's queue come from a single window, the
\* window of the level passed to the build that last refilled it; a build
\* refills a queue only when it is empty, restartGame empties every queue
\* first, and any other build only removes codes from a queue that holds some.
C20_SingleWindowQueue ==
  [][/\ OneWindow
     /\ OneWindow'
     /\ BuildStep =>
          \A t \in QuestionType :
            (queueRef[t] # {} /\ ~RestartStep) =>
               /\ queueRef'[t] \subseteq queueRef[t]
               /\ queueRef'[t] # {} => queueLevel'[t] = queueLevel[t]
     /\ RestartStep =>
          \A t \in QuestionType : queueRef'[t] # {} => queueLevel'[t] = 1]_vars

\* a code taken at level 2 from the flag queue that was filled at level 1
C20_Witness ==
  /\ lastEvent.kind = "skip"
  /\ level = 2
  /\ queueLevel["flag_match"] = 1
  /\ Cardinality(queueRef["flag_match"]) = 18
  /\ currentQuestion.type = "flag_match"

\* C27: a timer scheduled by an answer never fires after a skip or a restart
\* has already replaced the question it was scheduled for: the advance timer
\* does not fire on the question a skip or a restart has just presented.
C27_NoAdvanceAfterReplace ==
  [][TimerStep => lastEvent.kind \notin {"skip", "restart"}]_vars

\* the level the step just taken passed to buildNextQuestion
BuildLevel ==
  CASE lastEvent'.kind = "timer" -> nextTimeoutRef.lvl
    [] lastEvent'.kind = "restart" -> 1
    [] OTHER -> level

\* the builder of type returns a question whatever subject it draws
Succeeds(type, lvl) ==
  \A b \in buildQuestionForType(type, lvl, queueRef) : b.question # NullQuestion

\* C29: while every builder of the level succeeds, a buildNextQuestion call
\* returns a question of the type at the cursor position in the list of
\* unlocked types (wrapping) and advances the cursor by one, so successive
\* calls at a fixed level go through the list in cyclic order and each run of
\* n questions (n unlocked types) contains every unlocked type exactly once.
C29_CyclicRotation ==
  [][(BuildStep /\ \A t \in TypeSet(LevelTypes(BuildLevel)) : Succeeds(t, BuildLevel)) =>
       /\ currentQuestion'.type = AttemptType(BuildLevel, typeIndexRef, 0)
       /\ typeIndexRef' = typeIndexRef + 1]_vars

\* the third question in a row at level 2: flag, capital and flag again
C29_Witness ==
  /\ lastEvent.kind = "skip"
  /\ level = 2
  /\ skipsLeft = 1
  /\ typeIndexRef = 3
  /\ currentQuestion.type = "flag_match"
  /\ ~nextTimeoutRef.pending

\* the queue of type the build of the step just taken starts from
QueueBefore(type) == IF RestartStep THEN {} ELSE queueRef[type]

C26_SavedAndRestored ==
  [][/\ (lastEvent'.kind # "reload" /\ CurrentBlob' # CurrentBlob) => stored' = CurrentBlob'
     /\ mount.phase = "restoring" => CurrentBlob' = mount.data
     /\ (mount.phase = "rendered" /\ stored # NoBlob) => stored' = stored]_vars

\* C28: in every reachable state, the state right after a stored session has
\* been restored included, hearts = 0 implies gameOver.
C28_NoHeartsMeansGameOver == hearts = 0 => gameOver

\* the distinct non-empty values the pool of the probe offers, the correct one included
Qualifying ==
  ({probe.pool[i][probe.key] : i \in 1..Len(probe.pool)} \ {""})
    \cup {probe.correct[probe.key]}

\* C21: buildOptionSet and buildOptionSetForCountries return exactly 4
\* pairwise distinct option labels whenever the pool offers at least 4
\* distinct qualifying values (the correct one included); in every case the
\* correct value occurs exactly once among the options and
\* options[correctIndex] is the correct value.
C21_OptionSets ==
  probe.fn \in {"buildOptionSet", "buildOptionSetForCountries"} =>
    LET options == probe.out.options
        correctValue == probe.correct[probe.key]
    IN /\ Cardinality(Qualifying) >= 4 =>
            /\ Len(options) = 4
            /\ \A j, k \in 1..Len(options) : j # k => options[j] # options[k]
       /\ Cardinality({k \in 1..Len(options) : options[k] = correctValue}) = 1
       /\ probe.out.correctIndex \in 0..(Len(options) - 1)
       /\ options[probe.out.correctIndex + 1] = correctValue

\* the capital of Q, which R shares, among four options drawn from five countries
C21_Witness ==
  /\ probe.fn = "buildOptionSet"
  /\ probe.key = "capital"
  /\ Len(probe.pool) = 5
  /\ probe.correct.cca3 = "Q"
  /\ Len(probe.out.options) = 4
  /\ probe.out.correctIndex = 2

\* the codes in the border list of the subject of the probe
BorderCodes == {probe.correct.borders[k] : k \in 1..Len(probe.correct.borders)}

\* the names of the countries in the border list of the subject of the probe
BorderNames ==
  {probe.pool[i].name : i \in {j \in 1..Len(probe.pool) : probe.pool[j].cca3 \in BorderCodes}}

\* C22: in every neighbor_mcq question the option at correctIndex is a
\* country from the subject's border list, and no other option is the subject
\* itself or any country in the subject's border list.
C22_OneTrueNeighbour ==
  (probe.fn = "neighbor_mcq" /\ probe.out.built) =>
    LET options == probe.out.options
        cca3s == probe.out.optionCca3s
        ci == probe.out.correctIndex + 1
    IN /\ ci \in 1..Len(options)
       /\ cca3s[ci] \in BorderCodes
       /\ options[ci] \in BorderNames
       /\ \A k \in 1..Len(options) :
            k # ci => /\ cca3s[k] \notin BorderCodes \cup {probe.correct.cca3}
                      /\ options[k] \notin BorderNames \cup {probe.correct.name}

\* P, which borders Q and R, asked in a file of five with R as the answer among four options
C22_Witness ==
  /\ probe.fn = "neighbor_mcq"
  /\ probe.out.built
  /\ probe.correct.cca3 = "P"
  /\ Len(probe.pool) = 5
  /\ probe.out.targetCca3 = "R"
  /\ Len(probe.out.options) = 4
  /\ probe.out.correctIndex = 1

\* C23: every pair returned by pickMetricPair consists of two different
\* countries whose metric values are positive and unequal, and a pair
\* returned from the sampling phase has a larger/smaller ratio strictly
\* between 1.05 and 5.0.
C23_PairsDiffer ==
  (probe.fn = "pickMetricPair" /\ probe.out.found) =>
    LET valA == probe.out.a[probe.key]
        valB == probe.out.b[probe.key]
    IN /\ probe.out.a # probe.out.b
       /\ probe.out.a.name # probe.out.b.name
       /\ valA > 0
       /\ valB > 0
       /\ valA # valB
       /\ probe.out.phase = "sampled" =>
            /\ 100 * Max(valA, valB) > 105 * Min(valA, valB)
            /\ Max(valA, valB) < 5 * Min(valA, valB)

\* S (106) and P (100) sampled from a file that also holds Q (104) and R (105)
C23_Witness ==
  /\ probe.fn = "pickMetricPair"
  /\ probe.key = "population"
  /\ probe.out.found
  /\ probe.out.phase = "sampled"
  /\ probe.out.a.cca3 = "S"
  /\ probe.out.b.cca3 = "P"
  /\ Len(probe.pool) = 5

\* C24: for every population_pair question the option at correctIndex is the
\* country with the strictly larger population, and for every area_pair
\* question it is the country with the strictly larger area.
C24_LargerIsCorrect ==
  (probe.fn \in {"population_pair", "area_pair"} /\ probe.out.question.built) =>
    LET question == probe.out.question
        chosen == IF question.correctIndex = 0 THEN probe.out.pair.a ELSE probe.out.pair.b
        other == IF question.correctIndex = 0 THEN probe.out.pair.b ELSE probe.out.pair.a
    IN /\ question.correctIndex \in {0, 1}
       /\ question.options[question.correctIndex + 1] = chosen.name
       /\ chosen[probe.key] > other[probe.key]

\* S (area 100) against T (area 499): the second option is the correct one
C24_Witness ==
  /\ probe.fn = "area_pair"
  /\ probe.out.question.built
  /\ probe.out.pair.a.cca3 = "S"
  /\ probe.out.pair.b.cca3 = "T"
  /\ probe.out.question.correctIndex = 1

\* the tap of the probe is the centroid of its polygon target
TapsCentroid ==
  /\ probe.record.feature.type = "Polygon"
  /\ IsCentroid(probe.lngLat, probe.record.feature.coordinates)

\* how far outside the bounding box of its target the tap of the probe is,
\* in degrees (the larger of the two axis distances, 0 inside)
DegreesOutside ==
  LET bbox == probe.record.bbox
  IN Max(Max(bbox[1] - probe.lngLat[1], probe.lngLat[1] - bbox[3]),
         Max(Max(bbox[2] - probe.lngLat[2], probe.lngLat[2] - bbox[4]), 0))

\* the longer side of the bounding box of the target of the probe, in degrees
LongerSide ==
  LET bbox == probe.record.bbox
  IN Max(bbox[3] - bbox[1], bbox[4] - bbox[2])

\* the target of the probe is a convex polygon: one ring that turns left at every corner
ConvexTarget ==
  /\ probe.record.feature.type = "Polygon"
  /\ Len(probe.record.feature.coordinates) = 1
  /\ LET ring == probe.record.feature.coordinates[1]
         n == Len(ring) - 1
     IN \A k \in 1..n :
          Side(ring[k], ring[(k % n) + 1], ring[((k + 1) % n) + 1]) > 0

\* the target of the probe is a simple polygon: a single ring (none of the
\* rings of Geometries crosses itself) and no hole
SimpleTarget ==
  /\ probe.record.feature.type = "Polygon"
  /\ Len(probe.record.feature.coordinates) = 1

\* C25 as stated: the map-tap hit test returns true for the centroid of any
\* simple polygon target and returns false for a point far outside the
\* target's bounding box (here: outside by more than five times the longer
\* side of the box).
C25_CentroidHitsFarMisses ==
  probe.fn = "isCorrect" =>
    /\ (SimpleTarget /\ TapsCentroid) => probe.out
    /\ DegreesOutside > 5 * LongerSide => ~probe.out

\* C25 (amended): the map-tap hit test returns true for the centroid of any
\* convex polygon target and returns false for a tap that is more than 28
\* screen pixels outside the target's bounding box as projected.
C25_ConvexCentroidHitsFarPixelsMiss ==
  probe.fn = "isCorrect" =>
    /\ (ConvexTarget /\ TapsCentroid) => probe.out
    /\ probe.scale * DegreesOutside > TapRadius => ~probe.out

\* the centroid of the triangle tapped where only the point-in-polygon test can find it
C25_Witness ==
  /\ probe.fn = "isCorrect"
  /\ probe.record.feature.cca3 = "wedge"
  /\ probe.lngLat = <<2, 2>>
  /\ probe.scale = 4
  /\ probe.out

\* the difficulty window of the call of the probe
ProbeWindow == getPoolForLevel(probe.pool, probe.level)

\* the code the call of the probe shifted off its queue
ShiftedCodes ==
  (IF probe.before = {} THEN CodesOf(ProbeWindow) ELSE probe.before)
    \ probe.out.queue[probe.type]

\* C31: the subject returned by getNextCountryForType always belongs to the
\* difficulty window of the level passed to that call; when the code popped
\* from the queue is not in that window, the first (most famous) entry of the
\* window is returned instead.
C31_SubjectInWindow ==
  (probe.fn = "getNextCountryForType" /\ probe.out.country # NullCountry) =>
    /\ \E i \in 1..Len(ProbeWindow) : ProbeWindow[i] = probe.out.country
    /\ \A code \in ShiftedCodes :
         code \notin CodesOf(ProbeWindow) => probe.out.country = ProbeWindow[1]

\* country 21 of a file of 21 is shifted at level 1, whose window ends at
\* country 20: country 1 is returned
C31_Witness ==
  /\ probe.fn = "getNextCountryForType"
  /\ probe.type = "flag_match"
  /\ probe.level = 1
  /\ Len(probe.pool) = 21
  /\ probe.before = {"1", "21"}
  /\ probe.out.queue["flag_match"] = {"1"}
  /\ probe.out.country.cca3 = "1"

\* C32: when a single correct answer both completes a level (correctInLevel
\* reaches 5) and brings the streak to a multiple of 5, both heart
\* restorations are applied, so hearts becomes min(hearts + 2, 3); in all
\* other cases a correct answer raises hearts by at most 1.
C32_BothRestorations ==
  [][CorrectStep =>
       IF correctInLevel + 1 >= 5 /\ (currentStreak + 1) % 5 = 0
       THEN hearts' = Min(hearts + 2, 3)
       ELSE hearts' <= hearts + 1]_vars

\* the fifth correct answer of level 2 was also the fifth of the streak and
\* took hearts from 1 to 3
C32_Witness ==
  /\ JustCorrect
  /\ level = 3
  /\ correctInLevel = 0
  /\ currentStreak = 5
  /\ hearts = 3

\* C33: every map_tap question produced by buildNextQuestion carries a
\* defined targetFeature that is the geography-index record of the subject's
\* own country code, and while the geography index has no entry for any
\* catalog country no map_tap question is produced.
C33_MapQuestionHasTarget ==
  [][(BuildStep /\ currentQuestion'.type = "map_tap") =>
       /\ currentQuestion'.targetFeature
       /\ currentQuestion'.correctCca3 \in featureIndex'
       /\ featureIndex' \cap Codes' # {}]_vars

\* the advance timer has put up the map question on B, the one country of
\* the catalog the geography index holds
C33_Witness ==
  /\ lastEvent.kind = "timer"
  /\ currentQuestion.type = "map_tap"
  /\ currentQuestion.correctCca3 = "B"
  /\ currentQuestion.targetFeature
  /\ featureIndex = {"B"}

\* the edges of a closed ring that a ray from the point to the east crosses:
\* one end is north of the point, the other is not, and the edge passes the
\* latitude of the point east of it
RayCrossings(point, ring) ==
  {k \in 1..(Len(ring) - 1) :
     LET a == IF ring[k][2] <= ring[k + 1][2] THEN ring[k] ELSE ring[k + 1]
         b == IF ring[k][2] <= ring[k + 1][2] THEN ring[k + 1] ELSE ring[k]
     IN /\ a[2] <= point[2]
        /\ b[2] > point[2]
        /\ (b[1] - a[1]) * (point[2] - a[2]) > (point[1] - a[1]) * (b[2] - a[2])}

\* the even-odd rule
EvenOddInside(point, ring) == Cardinality(RayCrossings(point, ring)) % 2 = 1

\* inside the exterior ring and inside none of the holes
InsideByEvenOdd(point, polygon) ==
  /\ EvenOddInside(point, polygon[1])
  /\ \A h \in 2..Len(polygon) : ~EvenOddInside(point, polygon[h])

\* the constituent polygons of the record of the probe
ProbePolygons ==
  IF probe.record.feature.type = "Polygon" THEN {probe.record.feature.coordinates}
  ELSE {probe.record.feature.coordinates[p] : p \in 1..Len(probe.record.feature.coordinates)}

\* the point of the probe is inside the bounding box of its record
ProbeInBBox ==
  /\ probe.lngLat[1] >= probe.record.bbox[1]
  /\ probe.lngLat[1] <= probe.record.bbox[3]
  /\ probe.lngLat[2] >= probe.record.bbox[2]
  /\ probe.lngLat[2] <= probe.record.bbox[4]

\* C34: isPointInFeature(lng, lat, record) is true exactly when the point
\* lies inside the record's bounding box and, for at least one constituent
\* polygon, the even-odd ray cast places it inside the exterior ring and
\* inside none of the hole rings; every point outside the bounding box yields
\* false without consulting the rings.
C34_EvenOddInsideBBox ==
  probe.fn = "isPointInFeature" =>
    /\ probe.out <=> (/\ ProbeInBBox
                      /\ \E polygon \in ProbePolygons :
                           InsideByEvenOdd(probe.lngLat, polygon))
    /\ ~ProbeInBBox => (~probe.out /\ ~probe.ringsRead)

\* the middle of the hole of the ring: inside the box and the exterior ring, and not in the feature
C34_Witness ==
  /\ probe.fn = "isPointInFeature"
  /\ probe.record.feature.cca3 = "ring"
  /\ probe.lngLat = <<9, 9>>
  /\ probe.ringsRead
  /\ ~probe.out

\* width and height of the bounding box of the probe on the screen, in pixels
ProbeWidth == probe.scale * (probe.record.bbox[3] - probe.record.bbox[1])
ProbeHeight == probe.scale * (probe.record.bbox[4] - probe.record.bbox[2])

\* the tap of the probe is within 28 pixels of the projected centre of the
\* box (both sides of the comparison are four times the squares)
NearCentre ==
  LET dx2 == probe.scale * (2 * probe.lngLat[1] - (probe.record.bbox[1] + probe.record.bbox[3]))
      dy2 == probe.scale * (2 * probe.lngLat[2] - (probe.record.bbox[2] + probe.record.bbox[4]))
  IN dx2 * dx2 + dy2 * dy2 <= 4 * 28 * 28

\* C35: isSmallTargetHit accepts a tap iff the target's projected bounding
\* box is smaller than 12 screen pixels in both width and height and the tap
\* lies within 28 pixels of the projected bounding-box centre; a target
\* measuring 12 pixels or more in either dimension never receives the
\* fallback.
C35_SmallerThanTwelve ==
  probe.fn = "isSmallTargetHit" =>
    /\ probe.out <=> (ProbeWidth < 12 /\ ProbeHeight < 12 /\ NearCentre)
    /\ (ProbeWidth >= 12 \/ ProbeHeight >= 12) => ~probe.out

\* how often value occurs in the array
Count(items, value) == Cardinality({k \in 1..Len(items) : items[k] = value})

\* C36: for every input array and every sequence of random draws, shuffle
\* returns a new array that is a permutation of its input (same length, same
\* multiset of elements) and leaves the input array itself unmodified.
C36_ShufflePermutes ==
  probe.fn = "shuffle" =>
    /\ Len(probe.out) = Len(probe.pool)
    /\ \A k \in 1..Len(probe.pool) :
         Count(probe.out, probe.pool[k]) = Count(probe.pool, probe.pool[k])
    /\ \A k \in 1..Len(probe.out) : Count(probe.pool, probe.out[k]) > 0
    /\ probe.items = probe.pool

\* the capitals t, p, s, q, q come back in another order, the two q apart
C36_Witness ==
  /\ probe.fn = "shuffle"
  /\ probe.pool = <<"t", "p", "s", "q", "q">>
  /\ probe.out = <<"q", "s", "q", "p", "t">>
  /\ probe.items = probe.pool

\* the feature is one computeBBox can scan
WellFormed(feature) == feature.iterable

\* the feature carries a code and a Polygon or MultiPolygon geometry
Indexable(feature) ==
  feature.cca3 # NoCode /\ feature.type \in {"Polygon", "MultiPolygon"}

\* C37: the index built by loadGeoJson gets an entry for a code exactly when
\* some input feature carries that code with a Polygon or MultiPolygon
\* geometry, and a malformed feature is skipped while the index is still built
\* from the remaining well-formed features.
C37_MalformedSkipped ==
  probe.fn = "loadGeoJson" =>
    DOMAIN probe.out =
      {probe.pool[k].cca3 :
         k \in {j \in 1..Len(probe.pool) :
                  Indexable(probe.pool[j]) /\ WellFormed(probe.pool[j])}}

\* the array a is the first Len(a) entries of the array b
IsPrefix(a, b) == Len(a) <= Len(b) /\ SubSeq(b, 1, Len(a)) = a

\* C38: the level windows are nested: for all 1 <= L1 < L2 the window of L1
\* is a prefix of the window of L2, and from level 9 on the window is the
\* entire pool.
C38_WindowsNested ==
  probe.fn = "getPoolForLevel" =>
    /\ \A L1 \in 1..(probe.level - 1) :
         IsPrefix(getPoolForLevel(probe.pool, L1), probe.out)
    /\ probe.level >= 9 => probe.out = probe.pool

\* a pool of 131 entries at level 6: the 130 first, which hold the 100 of level 5
C38_Witness ==
  /\ probe.fn = "getPoolForLevel"
  /\ probe.level = 6
  /\ Len(probe.pool) = 131
  /\ Len(probe.out) = 130
  /\ Len(getPoolForLevel(probe.pool, 5)) = 100

SkipStep == lastEvent'.kind = "skip"

\* C39: handleSkip with skipsLeft > 0 decreases skipsLeft by exactly 1 and
\* advances to a new question, leaving score, highScore, streak, hearts,
\* level, correctInLevel and mastery unchanged; with skipsLeft = 0 it changes
\* nothing; skipsLeft stays within 0..3 between restarts.
C39_SkipFrame ==
  [][/\ SkipStep =>
          /\ skipsLeft > 0
          /\ skipsLeft' = skipsLeft - 1
          /\ \E r \in buildNextQuestion(level, typeIndexRef, queueRef) :
               /\ currentQuestion' = r.question
               /\ queueRef' = r.queue
               /\ typeIndexRef' = r.typeIndex
          /\ UNCHANGED <<score, highScore, currentStreak, hearts, level,
                         correctInLevel, mastery>>
     /\ (skipsLeft = 0 /\ ~RestartStep) => skipsLeft' = 0
     /\ skipsLeft' \in 0..3]_vars

\* the last skip, taken during a streak and after a lost heart
C39_Witness ==
  /\ lastEvent.kind = "skip"
  /\ skipsLeft = 0
  /\ currentStreak >= 1
  /\ hearts < MaxHearts
  /\ score > 0
  /\ currentQuestion # NullQuestion

HintStep == lastEvent'.kind = "hint"

\* C40: handleHint acts only on a question with at least 4 options, only
\* while hintsLeft > 0, and at most once per question; when it acts it hides
\* exactly two options, never the correct one, and decreases hintsLeft by 1;
\* hintsLeft stays within 0..3 between restarts.
C40_HintOnce ==
  [][/\ HintStep =>
          /\ currentQuestion # NullQuestion
          /\ currentQuestion.nOptions >= 4
          /\ hintsLeft > 0
          /\ removedIndices = {}
          /\ Cardinality(removedIndices') = 2
          /\ removedIndices' \subseteq 0..(currentQuestion.nOptions - 1)
          /\ currentQuestion.correctIndex \notin removedIndices'
          /\ hintsLeft' = hintsLeft - 1
          /\ currentQuestion' = currentQuestion
     /\ (removedIndices # {} /\ currentQuestion' = currentQuestion) =>
          (~HintStep /\ removedIndices' = removedIndices)
     /\ ~(HintStep \/ RestartStep) => hintsLeft' = hintsLeft
     /\ hintsLeft' \in 0..3]_vars

\* the last hint, on a question of four options
C40_Witness ==
  /\ lastEvent.kind = "hint"
  /\ hintsLeft = 0
  /\ currentQuestion.nOptions = 4
  /\ Cardinality(removedIndices) = 2
  /\ currentQuestion.correctIndex \notin removedIndices

====
